---- MODULE Spec2Model ----
(***************************************************************************)
(* The correction pipeline of the coding-question validator:               *)
(*   - QueueService (src/src/services/QueueService.ts): the SQS consumer   *)
(*     loop, per-message processing, retry / dead-letter decision;         *)
(*   - AIProcessorService.correctDocument                                  *)
(*     (src/src/services/AIProcessorService.ts): the token-budget ladder;  *)
(*   - parseComprehensiveAIResponse (src/unnamed/part_002).                *)
(* Spec   is the queue consumer together with the SQS provider.            *)
(* SpecAI is one AIProcessorService with its external corrector.           *)
(***************************************************************************)
EXTENDS Integers, Sequences, FiniteSets, TLC

\* ---------------------------------------------------------------- bounds
MaxMsgs == 2        \* messages that ever enter the queue
MaxAttempts == 2    \* largest configured retryMaxAttempts
MaxBatch == 2       \* largest configured maxNumberOfMessages
MaxLoops == 2       \* polling loops alive at the same time
MaxWorkers == 2     \* createWorker calls
MaxTextLen == 3     \* tokens of a corrector response text
MaxAttemptNumber == 10  \* largest delivery count the backoff is computed for
ForgedAttempt == 7  \* attemptNumber attribute of a job sent by another producer
MaxIdLen == 3       \* length of a documentId, in characters
MaxDocs == 3        \* documents in the file the import reads
MaxJobs == 3        \* deliveries the consumer handler processes
\* QueueConfigSchema: concurrency default
DefaultConcurrency == 5

Msgs == 1..MaxMsgs
Loops == 1..MaxLoops
\* Deliveries of one message are capped one past the dead-letter boundary.
MaxDeliveries == MaxAttempts + 1

VARIABLES
    cfg,            \* QueueService.config (immutable after construction)
    isPolling,      \* QueueService.isPolling
    handlers,       \* QueueService.messageHandlers: entries in insertion order
    lastKey,        \* the last Date.now() key createWorker used
    created,        \* number of createWorker calls so far
    destroyed,      \* QueueService.client was destroyed by close()
    loops,          \* position of every pollMessages chain
    q,              \* the provider's queue: per message state, count, body and
                    \* the attemptNumber message attribute it was sent with
    procs,          \* per pollMessages chain and message: position of the
                    \* processMessage the chain started for the message, and
                    \* how its promise settled (res)
    hist,           \* per message: the calls made for it (observation only)
    engine,         \* the JSON engine quotes the source in its error text
    ai,             \* one correctDocument invocation
    trace,          \* what the corrector did on each call of the invocation
    answer,         \* the document of the corrector's last parseable answer
    hop,            \* one job on its way through addJob, the queue and processMessage
    store,          \* the document collection behind the consumer handler
    imp,            \* one run of the data import
    norm            \* one document through DocumentNormalizer

qvars == <<cfg, isPolling, handlers, lastKey, created, destroyed, loops, q, procs, hist>>
aivars == <<engine, ai, trace, answer>>
iovars == <<hop, store, imp, norm>>
vars == <<cfg, isPolling, handlers, lastKey, created, destroyed, loops, q, procs, hist,
          engine, ai, trace, answer, hop, store, imp, norm>>

Min(a, b) == IF a <= b THEN a ELSE b

RECURSIVE Pow2(_)
Pow2(n) == IF n <= 0 THEN 1 ELSE 2 * Pow2(n - 1)

\* ------------------------------------------------------- configuration
\* retryDelayMs and visibilityTimeout pairs: a delay that is not a whole number
\* of seconds under the default ceiling, and a delay above a low ceiling.
DelayConfigs == {<<1500, 300>>, <<3500, 2>>}

QueueConfigs ==
    { [retryMaxAttempts |-> a, retryDelayMs |-> d[1], visibilityTimeout |-> d[2],
       maxNumberOfMessages |-> b, concurrency |-> DefaultConcurrency] :
         a \in 1..MaxAttempts, d \in DelayConfigs, b \in 1..MaxBatch }

\* ------------------------------------------------------------ processMessage
\* attemptNumber = parseInt(Attributes?.ApproximateReceiveCount || '1', 10);
\* count 0 stands for an absent attribute.
attemptNumber(count) == IF count = 0 THEN 1 ELSE count

DeadLetterOffByOne(attempt) == attempt > cfg.retryMaxAttempts
DeadLetterNever(attempt) == FALSE
DeadLetterAtTwice(attempt) == attempt >= 2 * cfg.retryMaxAttempts
\* if (attemptNumber >= this.config.retryMaxAttempts)
DeadLetterDue(attempt) == attempt >= cfg.retryMaxAttempts

backoffHalving(attempt) ==
    Min((cfg.retryDelayMs \div Pow2(attempt - 1)) \div 1000, cfg.visibilityTimeout)
backoffConstant(attempt) == Min(cfg.retryDelayMs \div 1000, cfg.visibilityTimeout)
backoffNoCeiling(attempt) == (cfg.retryDelayMs * Pow2(attempt - 1)) \div 1000
\* Math.floor(Math.min(retryDelayMs * 2^(attemptNumber-1) / 1000, visibilityTimeout));
\* the ceiling is an integer, so the floor of the minimum is the minimum of the floor.
backoffDelay(attempt) ==
    Min((cfg.retryDelayMs * Pow2(attempt - 1)) \div 1000, cfg.visibilityTimeout)

\* The first live entry of messageHandlers after position i (0: from the start);
\* 0 when the iteration is over.  Map.clear() empties the entries in place, so a
\* running iterator skips them and still visits entries appended later.
RECURSIVE NextHandler(_)
NextHandler(i) ==
    IF i >= Len(handlers) THEN 0
    ELSE IF handlers[i + 1].live THEN i + 1 ELSE NextHandler(i + 1)


\* response.Messages.map((message) => this.processMessage(message)): every
\* message of the batch is dispatched at once.
DispatchedFirstOnly(batch) ==
    IF batch = {} THEN {} ELSE {CHOOSE m \in batch : \A o \in batch : m <= o}
Dispatched(batch) == batch

\* processMessage at rest.  hidx is the position in messageHandlers of the
\* handler invoked last, inv the processors invoked for the delivery so far,
\* in order (a processor is numbered by the createWorker call that passed it).
IdlePM == [pc |-> "idle", loop |-> 0, hidx |-> 0, attempt |-> 0, res |-> "none",
           inv |-> << >>]
IdleProcs == [l \in Loops |-> [m \in Msgs |-> IdlePM]]

\* The processMessage that is under way for message m (the one of the first
\* chain that has one; a second chain can have one of its own only when the
\* message became visible again meanwhile), or processMessage at rest.
pm ==
    [m \in Msgs |->
        IF \E l \in Loops : procs[l][m].pc # "idle"
        THEN procs[CHOOSE l \in Loops : procs[l][m].pc # "idle"][m]
        ELSE IdlePM]

\* No job is on its way, the collection is empty, no import is running.
IdleHop == [pc |-> "idle", documentId |-> << >>, body |-> << >>, seen |-> << >>]
EmptyStore == [recs |-> << >>, jobs |-> << >>]
IdleImport == [pc |-> "idle", at |-> "none", raw |-> << >>, transformed |-> << >>,
               valid |-> << >>, coll |-> << >>, inserted |-> << >>, steps |-> << >>,
               before |-> << >>]

\* A field of a document that is absent, and a document nothing is known of;
\* no document is in the normalizer.
Absent == [k |-> "none", s |-> << >>]
BlankDocument == [id |-> "", qid |-> "", difficulty |-> "none", title |-> Absent,
                  slug |-> Absent, content |-> Absent, testCases |-> Absent,
                  topic_tags |-> "none", constraints |-> "none"]
IdleNorm == [pc |-> "idle", original |-> BlankDocument, normalized |-> BlankDocument,
             threw |-> FALSE, valid |-> FALSE]

\* What was observed for one message; cv/del count every call ever made for it,
\* dcv/ddel/out/dec/delay/dfault describe its latest delivery (dfault, fault: a
\* provider call for it failed); delays lists the timeout of every
\* changeMessageVisibility call in order; log lists the entries the catch block
\* of processMessage wrote for the latest delivery; dup: the message was
\* received once more while a processMessage for it was still under way.
NoHist == [cv |-> 0, del |-> 0, dcv |-> 0, ddel |-> 0, out |-> "none",
           dec |-> "none", delay |-> 0, dfault |-> FALSE, okSeen |-> FALSE,
           fault |-> FALSE, delays |-> << >>, log |-> << >>, dup |-> FALSE]

NewDelivery(h) == [h EXCEPT !.dcv = 0, !.ddel = 0, !.out = "none", !.dec = "none",
                            !.delay = 0, !.dfault = FALSE, !.log = << >>]

Faulted(h) == [h EXCEPT !.dfault = TRUE, !.fault = TRUE]

\* await this.deleteMessage(receiptHandle): the DeleteMessage call is sent.
SendDelete(h, why) == [h EXCEPT !.del = @ + 1, !.ddel = @ + 1, !.dec = why]

\* The catch block of processMessage: dead-letter or retry with backoff.
DecidePM(p) ==
    IF DeadLetterDue(p.attempt) THEN [p EXCEPT !.pc = "delDead"]
    ELSE [p EXCEPT !.pc = "cv"]
\* logger.error('Failed to process message', {...}), lines 231-236
LogFailed == [level |-> "error", event |-> "Failed to process message",
              fields |-> {"messageId", "documentId", "attemptNumber", "error"}]
\* logger.error('Max retry attempts reached, deleting message', {...}), lines 240-244
LogMaxRetry == [level |-> "error", event |-> "Max retry attempts reached, deleting message",
                fields |-> {"messageId", "documentId", "attempts"}]
\* logger.info('Retrying message with backoff', {...}), lines 253-258
LogRetrying == [level |-> "info", event |-> "Retrying message with backoff",
                fields |-> {"messageId", "documentId", "attemptNumber", "backoffSeconds"}]

\* The catch block of processMessage, as observed: the entries it logs and the
\* provider call it sends.
DecideHist(p, h) ==
    IF DeadLetterDue(p.attempt)
    THEN [SendDelete(h, "dead") EXCEPT !.log = @ \o <<LogFailed, LogMaxRetry>>]
    ELSE [h EXCEPT !.cv = @ + 1, !.dcv = @ + 1, !.dec = "retry",
                   !.delay = backoffDelay(p.attempt),
                   !.delays = Append(@, backoffDelay(p.attempt)),
                   !.log = @ \o <<LogFailed, LogRetrying>>]

\* The handler loop from position i: invoke the next handler, or, when the
\* iteration is over, delete the message on success.
AdvancePM(p, i) ==
    IF NextHandler(i) = 0 THEN [p EXCEPT !.pc = "delSuccess"]
    ELSE [p EXCEPT !.pc = "handler", !.hidx = NextHandler(i),
                   !.inv = Append(@, handlers[NextHandler(i)].proc)]
AdvanceHist(h, i) ==
    IF NextHandler(i) = 0
    THEN [SendDelete(h, "ack") EXCEPT !.out = "ok", !.okSeen = TRUE]
    ELSE h

StartPMFromAttribute(m, l, c) ==
    LET p == [pc |-> "idle", loop |-> l, hidx |-> 0, attempt |-> q[m].attr + 1,
              res |-> "none", inv |-> << >>] IN
    CASE q[m].body = "empty"     -> [p EXCEPT !.pc = "settled", !.res = "fulfilled"]
      [] q[m].body = "malformed" -> [p EXCEPT !.pc = "delMalformed"]
      [] q[m].body = "null"      -> [p EXCEPT !.pc = "settled", !.res = "rejected"]
      [] OTHER                   -> IF NextHandler(0) = 0 THEN [p EXCEPT !.pc = "delSuccess"]
                                    ELSE [p EXCEPT !.pc = "handler", !.hidx = NextHandler(0),
                                                   !.inv = <<handlers[NextHandler(0)].proc>>]

StartPMDeletesEmpty(m, l, c) ==
    LET p == [pc |-> "idle", loop |-> l, hidx |-> 0, attempt |-> attemptNumber(c),
              res |-> "none", inv |-> << >>] IN
    CASE q[m].body = "empty"     -> [p EXCEPT !.pc = "delMalformed"]
      [] q[m].body = "malformed" -> [p EXCEPT !.pc = "delMalformed"]
      [] q[m].body = "null"      -> [p EXCEPT !.pc = "settled", !.res = "rejected"]
      [] OTHER                   -> AdvancePM(p, 0)

\* processMessage up to its first await, for message m received by loop l with
\* provider count c.  The bodies: "job" is a serialized QueueMessage; "empty" is
\* no body; "malformed" is text JSON.parse rejects; "null" is the JSON text
\* null, which JSON.parse accepts, and reading queueMessage.documentId for the
\* log entry of line 201 then throws outside every try block, so processMessage
\* rejects without any call to the provider.
StartPM(m, l, c) ==
    LET p == [pc |-> "idle", loop |-> l, hidx |-> 0, attempt |-> attemptNumber(c),
              res |-> "none", inv |-> << >>] IN
    CASE q[m].body = "empty"     -> [p EXCEPT !.pc = "settled", !.res = "fulfilled"]
      [] q[m].body = "malformed" -> [p EXCEPT !.pc = "delMalformed"]
      [] q[m].body = "null"      -> [p EXCEPT !.pc = "settled", !.res = "rejected"]
      [] OTHER                   -> AdvancePM(p, 0)
StartHist(m) ==
    LET h == NewDelivery(hist[m]) IN
    CASE q[m].body = "empty"     -> [h EXCEPT !.dec = "skip"]
      [] q[m].body = "malformed" -> SendDelete(h, "drop")
      [] q[m].body = "null"      -> [h EXCEPT !.dec = "crash"]
      [] OTHER                   -> AdvanceHist(h, 0)

AfterPollExits == "idle"
\* The end of pollMessages: if (this.isPolling) setImmediate(() => this.pollMessages())
AfterPoll == IF isPolling THEN "next" ELSE "idle"

\* ------------------------------------------------------------------ Init
Init ==
    /\ cfg \in QueueConfigs
    /\ isPolling = FALSE
    /\ handlers = << >>
    /\ lastKey = 0
    /\ created = 0
    /\ destroyed = FALSE
    /\ loops = [l \in Loops |-> "idle"]
    /\ q = [m \in Msgs |-> [st |-> "unsent", rc |-> 0, body |-> "job", attr |-> 0, ret |-> "none"]]
    /\ procs = IdleProcs
    /\ hist = [m \in Msgs |-> NoHist]
    /\ engine = FALSE
    /\ ai = [pc |-> "idle", doc |-> [id |-> "", qid |-> ""], attempt |-> 0, calls |-> 0,
             budgets |-> << >>, out |-> [id |-> "", qid |-> ""], err |-> "none"]
    /\ trace = << >>
    /\ answer = [id |-> "", qid |-> ""]
    /\ hop = IdleHop
    /\ store = EmptyStore
    /\ imp = IdleImport
    /\ norm = IdleNorm

\* --------------------------------------------------------------- producers
AddJobSwallows(m, ok) ==
    /\ q[m].st = "unsent"
    /\ q' = [q EXCEPT ![m].st = IF ok THEN "visible" ELSE "rejected",
                      ![m].ret = "id"]
    /\ UNCHANGED <<cfg, isPolling, handlers, lastKey, created, destroyed, loops, procs,
                   hist, engine, ai, trace,
                   answer, hop, store, imp, norm>>

\* addJob: the SendMessage call succeeds, the job is enqueued and addJob returns
\* the message id; or it fails and addJob rethrows to its caller.  ret is what
\* the caller of addJob got.
AddJob(m, ok) ==
    /\ q[m].st = "unsent"
    /\ q' = [q EXCEPT ![m].st = IF ok THEN "visible" ELSE "rejected",
                      ![m].ret = IF ok THEN "id" ELSE "threw"]
    /\ UNCHANGED <<cfg, isPolling, handlers, lastKey, created, destroyed, loops, procs,
                   hist, engine, ai, trace,
                   answer, hop, store, imp, norm>>

\* Another producer of the same queue sends a body that is not a serialized job.
ForeignSend(m, body) ==
    /\ q[m].st = "unsent"
    /\ q' = [q EXCEPT ![m].st = "visible", ![m].body = body]
    /\ UNCHANGED <<cfg, isPolling, handlers, lastKey, created, destroyed, loops, procs,
                   hist, engine, ai, trace,
                   answer, hop, store, imp, norm>>

\* Another producer sends a serialized job whose attemptNumber message attribute
\* is not the '0' addJob writes.
ForeignJob(m, attr) ==
    /\ q[m].st = "unsent"
    /\ q' = [q EXCEPT ![m].st = "visible", ![m].attr = attr]
    /\ UNCHANGED <<cfg, isPolling, handlers, lastKey, created, destroyed, loops, procs,
                   hist, engine, ai, trace,
                   answer, hop, store, imp, norm>>

\* ---------------------------------------------------------- polling loop
FreeLoop == CHOOSE l \in Loops : loops[l] = "idle" /\ \A o \in Loops : loops[o] = "idle" => l <= o

\* startPolling followed by pollMessages up to its await of ReceiveMessage.
StartPollingLoops == [loops EXCEPT ![FreeLoop] = "receive"]

\* createWorker(processor): messageHandlers.set(Date.now().toString(), processor),
\* then startPolling unless already polling.  sameMs: the clock still shows the
\* millisecond of the previous createWorker call.
CreateWorker(sameMs) ==
    LET key == IF sameMs /\ lastKey > 0 THEN lastKey ELSE lastKey + 1
        at == {i \in 1..Len(handlers) : handlers[i].live /\ handlers[i].key = key}
        entry == [key |-> key, proc |-> created + 1, live |-> TRUE]
    IN
    /\ created < MaxWorkers
    /\ isPolling \/ \E l \in Loops : loops[l] = "idle"
    /\ created' = created + 1
    /\ lastKey' = key
    /\ handlers' = IF at = {} THEN Append(handlers, entry)
                   ELSE [i \in 1..Len(handlers) |-> IF i \in at THEN entry ELSE handlers[i]]
    /\ isPolling' = TRUE
    /\ loops' = IF isPolling THEN loops ELSE StartPollingLoops
    /\ UNCHANGED <<cfg, destroyed, q, procs, hist, engine, ai, trace,
                   answer, hop, store, imp, norm>>

Pause ==
    /\ isPolling
    /\ isPolling' = FALSE
    /\ UNCHANGED <<cfg, handlers, lastKey, created, destroyed, loops, q, procs, hist,
                   engine, ai, trace, answer, hop, store, imp, norm>>

Resume ==
    /\ ~isPolling
    /\ \E l \in Loops : loops[l] = "idle"
    /\ isPolling' = TRUE
    /\ loops' = StartPollingLoops
    /\ UNCHANGED <<cfg, handlers, lastKey, created, destroyed, q, procs, hist, engine, ai, trace,
                   answer, hop, store, imp, norm>>

\* close(): stop polling, clear the handlers, destroy the client.
Close ==
    /\ isPolling' = FALSE
    /\ handlers' = [i \in 1..Len(handlers) |-> [handlers[i] EXCEPT !.live = FALSE]]
    /\ destroyed' = TRUE
    /\ UNCHANGED <<cfg, lastKey, created, loops, q, procs, hist, engine, ai, trace,
                   answer, hop, store, imp, norm>>

\* Message m is received while a processMessage for it is still under way.
Again(m, h) ==
    IF \E o \in Loops : procs[o][m].pc \notin {"idle", "settled"}
    THEN [h EXCEPT !.dup = TRUE] ELSE h

\* The ReceiveMessage call of loop l returns batch (possibly empty); every
\* message of it becomes invisible with its count incremented, and the loop
\* dispatches processMessage for each.
ReceiveCompletes(l, batch) ==
    /\ loops[l] = "receive"
    /\ Cardinality(batch) <= cfg.maxNumberOfMessages
    /\ \A m \in batch : q[m].st = "visible" /\ q[m].rc < MaxDeliveries
    /\ q' = [m \in Msgs |-> IF m \in batch
                            THEN [q[m] EXCEPT !.st = "inflight", !.rc = @ + 1]
                            ELSE q[m]]
    /\ procs' = [procs EXCEPT ![l] =
                    [m \in Msgs |-> IF m \in Dispatched(batch)
                                    THEN StartPM(m, l, q[m].rc + 1) ELSE procs[l][m]]]
    /\ hist' = [m \in Msgs |-> IF m \in Dispatched(batch) THEN Again(m, StartHist(m))
                               ELSE IF m \in batch THEN Again(m, NewDelivery(hist[m]))
                               ELSE hist[m]]
    /\ loops' = [loops EXCEPT ![l] = IF batch = {} THEN AfterPoll ELSE "batch"]
    /\ UNCHANGED <<cfg, isPolling, handlers, lastKey, created, destroyed, engine, ai, trace,
                   answer, hop, store, imp, norm>>

\* The ReceiveMessage call fails: logged, and the loop goes on.
ReceiveFails(l) ==
    /\ loops[l] = "receive"
    /\ loops' = [loops EXCEPT ![l] = AfterPoll]
    /\ UNCHANGED <<cfg, isPolling, handlers, lastKey, created, destroyed, q, procs, hist,
                   engine, ai, trace, answer, hop, store, imp, norm>>

BatchSettledEarly(l) ==
    /\ loops[l] = "batch"
    /\ \E m \in Msgs : procs[l][m].pc = "settled"
    /\ procs' = [procs EXCEPT ![l] = [m \in Msgs |-> IdlePM]]
    /\ loops' = [loops EXCEPT ![l] = AfterPoll]
    /\ UNCHANGED <<cfg, isPolling, handlers, lastKey, created, destroyed, q, hist,
                   engine, ai, trace, answer, hop, store, imp, norm>>
\* await Promise.allSettled(processingPromises) resumes.
BatchSettled(l) ==
    /\ loops[l] = "batch"
    /\ \A m \in Msgs : procs[l][m].pc \in {"idle", "settled"}
    /\ procs' = [procs EXCEPT ![l] = [m \in Msgs |-> IdlePM]]
    /\ loops' = [loops EXCEPT ![l] = AfterPoll]
    /\ UNCHANGED <<cfg, isPolling, handlers, lastKey, created, destroyed, q, hist,
                   engine, ai, trace, answer, hop, store, imp, norm>>

NextPollUnguarded(l) ==
    /\ loops[l] = "next"
    /\ loops' = [loops EXCEPT ![l] = "receive"]
    /\ UNCHANGED <<cfg, isPolling, handlers, lastKey, created, destroyed, q, procs, hist,
                   engine, ai, trace, answer, hop, store, imp, norm>>

\* The setImmediate callback: pollMessages again.
NextPoll(l) ==
    /\ loops[l] = "next"
    /\ loops' = [loops EXCEPT ![l] = IF isPolling THEN "receive" ELSE "idle"]
    /\ UNCHANGED <<cfg, isPolling, handlers, lastKey, created, destroyed, q, procs, hist,
                   engine, ai, trace, answer, hop, store, imp, norm>>

\* ------------------------------------------------------ message processing
\* The handler invoked for m settles: it returns or it raises.
HandlerDone(m, ok) ==
    \E l \in Loops :
        /\ procs[l][m].pc = "handler"
        /\ procs' = [procs EXCEPT ![l][m].pc = IF ok THEN "returned" ELSE "raised"]
        /\ hist' = [hist EXCEPT ![m].out = IF ok THEN @ ELSE "raised"]
        /\ UNCHANGED <<cfg, isPolling, handlers, lastKey, created, destroyed, loops, q,
                       engine, ai, trace, answer, hop, store, imp, norm>>

ResumableAfterSiblings(l, m) ==
    /\ procs[l][m].pc \in {"returned", "raised"}
    /\ \A o \in Msgs : procs[l][o].pc # "handler"
\* processMessage resumes after 'await handler(queueMessage)'.
Resumable(l, m) == procs[l][m].pc \in {"returned", "raised"}

\* The continuation of processMessage after the handler settled: the next
\* handler or the delete on success; the retry / dead-letter decision on a raise.
Continue(m) ==
    \E l \in Loops :
        /\ Resumable(l, m)
        /\ procs' = [procs EXCEPT ![l][m] =
                        IF procs[l][m].pc = "returned"
                        THEN AdvancePM(procs[l][m], procs[l][m].hidx)
                        ELSE DecidePM(procs[l][m])]
        /\ hist' = [hist EXCEPT ![m] = IF procs[l][m].pc = "returned"
                                       THEN AdvanceHist(hist[m], procs[l][m].hidx)
                                       ELSE DecideHist(procs[l][m], hist[m])]
        /\ UNCHANGED <<cfg, isPolling, handlers, lastKey, created, destroyed, loops, q,
                       engine, ai, trace, answer, hop, store, imp, norm>>

\* The DeleteMessage call for m completes.  deleteMessage rethrows a failure: on
\* the success path the rethrow lands in the catch block of processMessage; on
\* the other two paths it rejects processMessage.
DeleteCompletes(m, ok) ==
    \E l \in Loops :
        /\ procs[l][m].pc \in {"delSuccess", "delDead", "delMalformed"}
        /\ q' = [q EXCEPT ![m].st = IF ok THEN "gone" ELSE @]
        /\ procs' = [procs EXCEPT ![l][m] =
                        IF ~ok /\ procs[l][m].pc = "delSuccess" THEN DecidePM(procs[l][m])
                        ELSE [procs[l][m] EXCEPT !.pc = "settled",
                                                 !.res = IF ok THEN "fulfilled"
                                                         ELSE "rejected"]]
        /\ hist' = [hist EXCEPT ![m] =
                      IF ok THEN hist[m]
                      ELSE IF procs[l][m].pc = "delSuccess"
                           THEN DecideHist(procs[l][m], Faulted(hist[m]))
                           ELSE Faulted(hist[m])]
        /\ UNCHANGED <<cfg, isPolling, handlers, lastKey, created, destroyed, loops,
                       engine, ai, trace, answer, hop, store, imp, norm>>

VisibilityCompletesRethrows(m, ok) ==
    \E l \in Loops :
        /\ procs[l][m].pc = "cv"
        /\ ok => q[m].st = "inflight"
        /\ procs' = [procs EXCEPT ![l][m].pc = "settled",
                                  ![l][m].res = IF ok THEN "fulfilled" ELSE "rejected"]
        /\ hist' = [hist EXCEPT ![m] = IF ok THEN @ ELSE Faulted(@)]
        /\ UNCHANGED <<cfg, isPolling, handlers, lastKey, created, destroyed, loops, q,
                       engine, ai, trace, answer, hop, store, imp, norm>>
\* The ChangeMessageVisibility call for m completes; a failure is logged only.
\* The provider performs the call only for a message that is in flight.
VisibilityCompletes(m, ok) ==
    \E l \in Loops :
        /\ procs[l][m].pc = "cv"
        /\ ok => q[m].st = "inflight"
        /\ procs' = [procs EXCEPT ![l][m].pc = "settled", ![l][m].res = "fulfilled"]
        /\ hist' = [hist EXCEPT ![m] = IF ok THEN @ ELSE Faulted(@)]
        /\ UNCHANGED <<cfg, isPolling, handlers, lastKey, created, destroyed, loops, q,
                       engine, ai, trace, answer, hop, store, imp, norm>>

\* The invisibility window of a received message lapses: the provider makes it
\* visible again, whether or not processMessage is still under way for it.
Expire(m) ==
    /\ q[m].st = "inflight"
    /\ q' = [q EXCEPT ![m].st = "visible"]
    /\ UNCHANGED <<cfg, isPolling, handlers, lastKey, created, destroyed, loops, procs,
                   hist, engine, ai, trace, answer, hop, store, imp, norm>>

\* The consumer with its producers and the provider.
Next ==
    \/ \E m \in Msgs, ok \in BOOLEAN : AddJob(m, ok)
    \/ \E m \in Msgs, b \in {"malformed", "empty", "null"} : ForeignSend(m, b)
    \/ \E m \in Msgs : ForeignJob(m, ForgedAttempt)
    \/ \E s \in BOOLEAN : CreateWorker(s)
    \/ \E l \in Loops, batch \in SUBSET Msgs : ReceiveCompletes(l, batch)
    \/ \E l \in Loops : ReceiveFails(l)
    \/ \E l \in Loops : BatchSettled(l)
    \/ \E l \in Loops : NextPoll(l)
    \/ \E m \in Msgs, ok \in BOOLEAN : HandlerDone(m, ok)
    \/ \E m \in Msgs : Continue(m)
    \/ \E m \in Msgs, ok \in BOOLEAN : DeleteCompletes(m, ok)
    \/ \E m \in Msgs, ok \in BOOLEAN : VisibilityCompletes(m, ok)
    \/ \E m \in Msgs : Expire(m)

Spec == Init /\ [][Next]_vars

\* The consumer together with pause, resume and close, for one job under the
\* default retry policy.
InitLifecycle ==
    /\ cfg = [retryMaxAttempts |-> 3, retryDelayMs |-> 5000, visibilityTimeout |-> 300,
              maxNumberOfMessages |-> 1, concurrency |-> DefaultConcurrency]
    /\ isPolling = FALSE
    /\ handlers = << >>
    /\ lastKey = 0
    /\ created = 0
    /\ destroyed = FALSE
    /\ loops = [l \in Loops |-> "idle"]
    /\ q = [m \in Msgs |-> [st |-> IF m = 1 THEN "unsent" ELSE "rejected", rc |-> 0,
                            body |-> "job", attr |-> 0,
                            ret |-> IF m = 1 THEN "none" ELSE "threw"]]
    /\ procs = IdleProcs
    /\ hist = [m \in Msgs |-> NoHist]
    /\ engine = FALSE
    /\ ai = [pc |-> "idle", doc |-> [id |-> "", qid |-> ""], attempt |-> 0, calls |-> 0,
             budgets |-> << >>, out |-> [id |-> "", qid |-> ""], err |-> "none"]
    /\ trace = << >>
    /\ answer = [id |-> "", qid |-> ""]
    /\ hop = IdleHop
    /\ store = EmptyStore
    /\ imp = IdleImport
    /\ norm = IdleNorm

NextLifecycle ==
    \/ Next
    \/ Pause
    \/ Resume
    \/ Close

SpecLifecycle == InitLifecycle /\ [][NextLifecycle]_vars

\* The consumer under one configuration, with the scheduling the runtime gives:
\* a ready continuation or timer callback is run, a provider call that was sent
\* completes, and a handler that was invoked settles.
InitLive ==
    /\ cfg = [retryMaxAttempts |-> 2, retryDelayMs |-> 1500, visibilityTimeout |-> 300,
              maxNumberOfMessages |-> 2, concurrency |-> 1]
    /\ isPolling = FALSE
    /\ handlers = << >>
    /\ lastKey = 0
    /\ created = 0
    /\ destroyed = FALSE
    /\ loops = [l \in Loops |-> "idle"]
    /\ q = [m \in Msgs |-> [st |-> "unsent", rc |-> 0, body |-> "job", attr |-> 0, ret |-> "none"]]
    /\ procs = IdleProcs
    /\ hist = [m \in Msgs |-> NoHist]
    /\ engine = FALSE
    /\ ai = [pc |-> "idle", doc |-> [id |-> "", qid |-> ""], attempt |-> 0, calls |-> 0,
             budgets |-> << >>, out |-> [id |-> "", qid |-> ""], err |-> "none"]
    /\ trace = << >>
    /\ answer = [id |-> "", qid |-> ""]
    /\ hop = IdleHop
    /\ store = EmptyStore
    /\ imp = IdleImport
    /\ norm = IdleNorm

Fairness ==
    /\ \A l \in Loops : WF_vars(BatchSettled(l)) /\ WF_vars(NextPoll(l))
    /\ \A m \in Msgs :
          /\ WF_vars(\E ok \in BOOLEAN : HandlerDone(m, ok))
          /\ WF_vars(Continue(m))
          /\ WF_vars(\E ok \in BOOLEAN : DeleteCompletes(m, ok))
          /\ WF_vars(\E ok \in BOOLEAN : VisibilityCompletes(m, ok))

SpecLive == InitLive /\ [][Next]_vars /\ Fairness

\* Fair delivery by the provider: a visible message that a receive can return
\* again and again is returned by some receive, and the invisibility window of
\* a processed message lapses.
DeliveryFairness ==
    \A m \in Msgs :
        /\ SF_vars(\E l \in Loops, batch \in SUBSET Msgs :
                      m \in batch /\ ReceiveCompletes(l, batch))
        /\ WF_vars(Expire(m))

SpecFair == InitLive /\ [][Next]_vars /\ Fairness /\ DeliveryFairness

\* ---------------------------------------------------------------- backoff
\* The retry branch of processMessage for every delivery count n up to
\* MaxAttemptNumber: one message, received for the n-th time by a running loop,
\* is in its handler; the handler raised on the n - 1 deliveries before, and
\* retryMaxAttempts is above every n.  retryDelayMs covers sub-second values,
\* values that are no whole number of seconds, and whole seconds;
\* visibilityTimeout covers low and high ceilings.
BackoffDelays == {1, 500, 999, 1000, 1500, 5000, 60000}
BackoffCeilings == {1, 7, 300, 43200}

RECURSIVE DelaysUpTo(_, _, _)
DelaysUpTo(i, n, c) ==
    IF i > n THEN << >>
    ELSE <<Min((c.retryDelayMs * Pow2(i - 1)) \div 1000, c.visibilityTimeout)>>
         \o DelaysUpTo(i + 1, n, c)

InitBackoff ==
    /\ cfg \in { [retryMaxAttempts |-> MaxAttemptNumber + 1, retryDelayMs |-> d,
                  visibilityTimeout |-> v, maxNumberOfMessages |-> 1,
                  concurrency |-> DefaultConcurrency] :
                    d \in BackoffDelays, v \in BackoffCeilings }
    /\ isPolling = TRUE
    /\ handlers = <<[key |-> 1, proc |-> 1, live |-> TRUE]>>
    /\ lastKey = 1
    /\ created = 1
    /\ destroyed = FALSE
    /\ loops = [l \in Loops |-> IF l = 1 THEN "batch" ELSE "idle"]
    /\ \E n \in 1..MaxAttemptNumber :
          /\ q = [m \in Msgs |-> IF m = 1
                                 THEN [st |-> "inflight", rc |-> n, body |-> "job", attr |-> 0,
                                       ret |-> "id"]
                                 ELSE [st |-> "unsent", rc |-> 0, body |-> "job", attr |-> 0, ret |-> "none"]]
          /\ procs = [IdleProcs EXCEPT ![1][1] =
                          [pc |-> "handler", loop |-> 1, hidx |-> 1,
                           attempt |-> attemptNumber(n), res |-> "none", inv |-> <<1>>]]
          /\ hist = [m \in Msgs |-> IF m = 1
                                    THEN [NoHist EXCEPT !.cv = n - 1,
                                                        !.delays = DelaysUpTo(1, n - 1, cfg)]
                                    ELSE NoHist]
    /\ engine = FALSE
    /\ ai = [pc |-> "idle", doc |-> [id |-> "", qid |-> ""], attempt |-> 0, calls |-> 0,
             budgets |-> << >>, out |-> [id |-> "", qid |-> ""], err |-> "none"]
    /\ trace = << >>
    /\ answer = [id |-> "", qid |-> ""]
    /\ hop = IdleHop
    /\ store = EmptyStore
    /\ imp = IdleImport
    /\ norm = IdleNorm

NextBackoff ==
    \/ \E m \in Msgs, ok \in BOOLEAN : HandlerDone(m, ok)
    \/ \E m \in Msgs : Continue(m)
    \/ \E m \in Msgs, ok \in BOOLEAN : DeleteCompletes(m, ok)
    \/ \E m \in Msgs, ok \in BOOLEAN : VisibilityCompletes(m, ok)
    \/ \E l \in Loops : BatchSettled(l)

SpecBackoff == InitBackoff /\ [][NextBackoff]_vars


\* ======================================================================
\* AIProcessorService.correctDocument and parseComprehensiveAIResponse
\* ======================================================================
MAX_RETRIES_FOR_LENGTH == 3
TOKEN_PROGRESSION == <<100000, 150000, 200000>>
\* AIConfigSchema: maxTokens default
ConfigMaxTokens == 4000

\* A response text is a sequence of tokens: a code-fence marker, the word json,
\* a newline, a serialized document ({A}, {B}: with that _id; {}: without one),
\* a word that is no JSON, and the word length (no JSON either).
Tokens == {"fence", "json", "nl", "{A}", "{B}", "{}", "x", "length"}
JsonDocs == {"{A}", "{B}", "{}"}

RECURSIVE TextsOfLen(_)
TextsOfLen(n) ==
    IF n = 0 THEN {<< >>}
    ELSE {Append(t, k) : t \in TextsOfLen(n - 1), k \in Tokens}
Texts == UNION {TextsOfLen(n) : n \in 0..MaxTextLen}

\* The documents: _id and question_id, "" when the field is absent.
NoDoc == [id |-> "", qid |-> ""]
InputDocs == {[id |-> i, qid |-> k] : i \in {"", "A"}, k \in {"", "q1"}}

Drop(t, n) == SubSeq(t, n + 1, Len(t))
DropLast(t, n) == SubSeq(t, 1, Len(t) - n)

\* String.prototype.trim
RECURSIVE TrimLeft(_)
TrimLeft(t) == IF t # << >> /\ t[1] = "nl" THEN TrimLeft(Drop(t, 1)) ELSE t
RECURSIVE TrimRight(_)
TrimRight(t) == IF t # << >> /\ t[Len(t)] = "nl" THEN TrimRight(DropLast(t, 1)) ELSE t
Trim(t) == TrimRight(TrimLeft(t))

\* cleaned.replace(/^FENCE(?:json)?\n?/, ''), FENCE being three backticks
StripOpenFence(t) ==
    LET a == Drop(t, 1)
        b == IF a # << >> /\ a[1] = "json" THEN Drop(a, 1) ELSE a
    IN IF b # << >> /\ b[1] = "nl" THEN Drop(b, 1) ELSE b

\* .replace(/\n?FENCE$/, '')
StripCloseFence(t) ==
    IF t # << >> /\ t[Len(t)] = "fence"
    THEN LET a == DropLast(t, 1)
         IN IF a # << >> /\ a[Len(a)] = "nl" THEN DropLast(a, 1) ELSE a
    ELSE t

\* let cleaned = response.trim(); if (cleaned.startsWith(FENCE)) cleaned = ...
Cleaned(t) ==
    LET c == Trim(t)
    IN IF c # << >> /\ c[1] = "fence" THEN StripCloseFence(StripOpenFence(c)) ELSE c

\* JSON.parse(cleaned) accepts one value with whitespace around it.
JsonParses(c) == Len(Trim(c)) = 1 /\ Trim(c)[1] \in JsonDocs

JsonValue(c) ==
    CASE Trim(c)[1] = "{A}" -> [id |-> "A", qid |-> "q1"]
      [] Trim(c)[1] = "{B}" -> [id |-> "B", qid |-> "q2"]
      [] OTHER              -> NoDoc

\* The characters of a token: three backticks, the word json, a line feed, the
\* object with _id and question_id ({"_id":"A","question_id":"q1"}), the
\* empty object, the letter x, the word length.
TokenLen(k) ==
    CASE k = "fence"  -> 3
      [] k = "json"   -> 4
      [] k = "nl"     -> 1
      [] k = "x"      -> 1
      [] k = "length" -> 6
      [] k = "{}"     -> 2
      [] OTHER        -> 30

\* The number of characters of the first n tokens of c.
RECURSIVE CharsBefore(_, _)
CharsBefore(c, n) == IF n = 0 THEN 0 ELSE CharsBefore(c, n - 1) + TokenLen(c[n])

\* The engine quotes up to ContextChars characters on each side of the
\* character it stopped at, and the whole source when it has fewer than
\* MinLengthForContext characters.
ContextChars == 10
MinLengthForContext == 2 * ContextChars + 1

\* The text of the SyntaxError of JSON.parse contains the word length: only an
\* engine that quotes the source around an unexpected token can say it.  The
\* parser skips the white space and stops at the first character of the token
\* after it; nothing is quoted for a source of white space only or for text
\* after a complete value.
JsonErrorSaysLength(c, quotes) ==
    LET b    == TrimLeft(c)
        pos  == CharsBefore(c, Len(c) - Len(b))
        size == CharsBefore(c, Len(c))
        from == IF size < MinLengthForContext \/ pos < ContextChars
                THEN 0 ELSE pos - ContextChars
        to   == IF size >= MinLengthForContext /\ pos < size - ContextChars
                THEN pos + ContextChars ELSE size
    IN /\ quotes
       /\ b # << >>
       /\ b[1] \notin JsonDocs
       /\ \E i \in 1..Len(c) :
             /\ c[i] = "length"
             /\ from <= CharsBefore(c, i - 1)
             /\ CharsBefore(c, i) <= to

\* parseComprehensiveAIResponse: the parsed document, or a rethrown
\* Error('Failed to parse AI response: ${message}').
ParseOk(t) == JsonParses(Cleaned(t))
ParsedDocument(t) == JsonValue(Cleaned(t))
ParseErrorSaysLength(t, quotes) == JsonErrorSaysLength(Cleaned(t), quotes)

RestoredFromAnswer(doc, parsed) == parsed
RestoredIdOnly(doc, parsed) ==
    IF doc.id # "" THEN [parsed EXCEPT !.id = doc.id] ELSE parsed

\* _id.toString(): the string form of an identifier.
IdToString(id) == IF id = "A" THEN "hexA" ELSE IF id = "B" THEN "hexB" ELSE id

\* Lines 119-134: restore _id and question_id on the parsed document.
Restored(doc, parsed) ==
    LET a == IF doc.id # "" THEN [parsed EXCEPT !.id = doc.id] ELSE parsed
        b == IF doc.qid # "" THEN [a EXCEPT !.qid = doc.qid]
             ELSE IF doc.id # "" THEN [a EXCEPT !.qid = IdToString(doc.id)]
             ELSE a
    IN IF b.qid = "" /\ doc.qid # "" THEN [b EXCEPT !.qid = doc.qid] ELSE b

MaxTokensFromConfig(attempt) == ConfigMaxTokens
\* const maxTokens = this.TOKEN_PROGRESSION[attempt] || this.config.maxTokens
MaxTokensFor(attempt) ==
    IF attempt + 1 <= Len(TOKEN_PROGRESSION) /\ TOKEN_PROGRESSION[attempt + 1] # 0
    THEN TOKEN_PROGRESSION[attempt + 1] ELSE ConfigMaxTokens

CanEscalateEarlyStop(attempt) == attempt < MAX_RETRIES_FOR_LENGTH - 2
\* attempt < this.MAX_RETRIES_FOR_LENGTH - 1
CanEscalate(attempt) == attempt < MAX_RETRIES_FOR_LENGTH - 1

NeverTruncated(finishReason) == FALSE
\* if (finishReason === 'length')
IsTruncated(finishReason) == finishReason = "length"

\* lastError.message.includes('length')
MessageSaysLength(saysLength) == saysLength

IdleAI == [pc |-> "idle", doc |-> NoDoc, attempt |-> 0, calls |-> 0,
           budgets |-> << >>, out |-> NoDoc, err |-> "none"]

FirstTurnResumes(doc) ==
    LET k == IF trace # << >> /\ trace[Len(trace)] = "truncated"
             THEN MAX_RETRIES_FOR_LENGTH - 1 ELSE 0
    IN [IdleAI EXCEPT !.pc = "calling", !.doc = doc, !.attempt = k, !.calls = 1,
                      !.budgets = <<MaxTokensFor(k)>>]
\* for (let attempt = 0; ...): attempt and lastError are locals of the
\* invocation, so the first turn is turn 0 with the first budget.
FirstTurn(doc) ==
    [IdleAI EXCEPT !.pc = "calling", !.doc = doc, !.calls = 1,
                   !.budgets = <<MaxTokensFor(0)>>]

\* The next turn of the for loop: the corrector is called with the next budget,
\* or, past the last turn, the statement after the loop throws lastError.
NextTurn(a) ==
    IF a.attempt + 1 < MAX_RETRIES_FOR_LENGTH
    THEN [a EXCEPT !.attempt = @ + 1, !.calls = @ + 1,
                   !.budgets = Append(@, MaxTokensFor(a.attempt + 1))]
    ELSE [a EXCEPT !.pc = "threw", !.err = "lastError"]

\* The catch block: continue on a length error while rungs remain, else rethrow.
Caught(a, kind, saysLength) ==
    IF MessageSaysLength(saysLength) /\ CanEscalate(a.attempt)
    THEN NextTurn(a)
    ELSE [a EXCEPT !.pc = "threw", !.err = kind]

\* What correctDocument does with a response that carries a finish reason and,
\* possibly, content.
OnResponse(a, finishReason, hasContent, text, quotes) ==
    IF IsTruncated(finishReason)
    THEN IF CanEscalate(a.attempt) THEN NextTurn(a)
         \* 'Response truncated after 3 attempts with max tokens: ...'
         ELSE Caught(a, "truncated", FALSE)
    ELSE IF ~hasContent
    \* 'No content in AI response. Finish reason: ${finishReason}'
    THEN Caught(a, "noContent", FALSE)
    ELSE IF ~ParseOk(text)
    THEN Caught(a, "parseError", ParseErrorSaysLength(text, quotes))
    ELSE [a EXCEPT !.pc = "returned", !.out = Restored(a.doc, ParsedDocument(text))]

InitAI ==
    /\ cfg = [retryMaxAttempts |-> 3, retryDelayMs |-> 5000, visibilityTimeout |-> 300,
              maxNumberOfMessages |-> 1, concurrency |-> DefaultConcurrency]
    /\ isPolling = FALSE
    /\ handlers = << >>
    /\ lastKey = 0
    /\ created = 0
    /\ destroyed = FALSE
    /\ loops = [l \in Loops |-> "idle"]
    /\ q = [m \in Msgs |-> [st |-> "unsent", rc |-> 0, body |-> "job", attr |-> 0, ret |-> "none"]]
    /\ procs = IdleProcs
    /\ hist = [m \in Msgs |-> NoHist]
    /\ engine \in BOOLEAN
    /\ ai = IdleAI
    /\ trace = << >>
    /\ answer = NoDoc
    /\ hop = IdleHop
    /\ store = EmptyStore
    /\ imp = IdleImport
    /\ norm = IdleNorm

\* correctDocument(document, validationErrors) is called: the first corrector
\* call is sent with the first budget.
CorrectDocument(doc) ==
    /\ ai.pc = "idle"
    /\ ai' = FirstTurn(doc)
    /\ trace' = << >>
    /\ answer' = NoDoc
    /\ UNCHANGED <<qvars, engine, hop, store, imp, norm>>

\* The corrector call rejects (transport error, API error); its message may or
\* may not contain the word length.
CallFails(saysLength) ==
    /\ ai.pc = "calling"
    /\ ai' = Caught(ai, "apiError", saysLength)
    /\ trace' = Append(trace, "apiError")
    /\ UNCHANGED <<qvars, engine, answer, hop, store, imp, norm>>

\* The corrector answers with finish reason 'length'.
CallTruncated(hasContent, text) ==
    /\ ai.pc = "calling"
    /\ ai' = OnResponse(ai, "length", hasContent, text, engine)
    /\ trace' = Append(trace, "truncated")
    /\ UNCHANGED <<qvars, engine, answer, hop, store, imp, norm>>

\* The corrector answers with another finish reason and no content (a refusal,
\* a content filter, an empty message).
CallEmpty(finishReason) ==
    /\ ai.pc = "calling"
    /\ ai' = OnResponse(ai, finishReason, FALSE, << >>, engine)
    /\ trace' = Append(trace, "noContent")
    /\ UNCHANGED <<qvars, engine, answer, hop, store, imp, norm>>

\* The corrector answers with finish reason 'stop' and a text.
CallAnswers(text) ==
    /\ ai.pc = "calling"
    /\ ai' = OnResponse(ai, "stop", TRUE, text, engine)
    /\ trace' = Append(trace, IF ParseOk(text) THEN "document" ELSE "unparseable")
    /\ answer' = IF ParseOk(text) THEN ParsedDocument(text) ELSE answer
    /\ UNCHANGED <<qvars, engine, hop, store, imp, norm>>

\* The invocation is over; the service keeps nothing of it.
CallerResumes ==
    /\ ai.pc \in {"returned", "threw"}
    /\ ai' = IdleAI
    /\ trace' = << >>
    /\ answer' = NoDoc
    /\ UNCHANGED <<qvars, engine, hop, store, imp, norm>>

NextAI ==
    \/ \E d \in InputDocs : CorrectDocument(d)
    \/ \E s \in BOOLEAN : CallFails(s)
    \/ \E c \in BOOLEAN, t \in {<< >>, <<"{A}">>, <<"{B}">>} : CallTruncated(c, t)
    \/ \E f \in {"stop", "content_filter"} : CallEmpty(f)
    \/ \E t \in Texts \ {<< >>} : CallAnswers(t)
    \/ CallerResumes

SpecAI == InitAI /\ [][NextAI]_vars

\* ------------------------------------------- the two retry levels together
\* One job under the consumer, whose registered handler calls correctDocument
\* and raises when correctDocument throws.  Here trace keeps the calls of every
\* invocation made for the job, each invocation opened by "invoked".
InitLevels ==
    /\ cfg = [retryMaxAttempts |-> 2, retryDelayMs |-> 1500, visibilityTimeout |-> 300,
              maxNumberOfMessages |-> 1, concurrency |-> DefaultConcurrency]
    /\ isPolling = TRUE
    /\ handlers = <<[key |-> 1, proc |-> 1, live |-> TRUE]>>
    /\ lastKey = 1
    /\ created = 1
    /\ destroyed = FALSE
    /\ loops = [l \in Loops |-> IF l = 1 THEN "receive" ELSE "idle"]
    /\ q = [m \in Msgs |-> IF m = 1
                           THEN [st |-> "visible", rc |-> 0, body |-> "job", attr |-> 0,
                                 ret |-> "id"]
                           ELSE [st |-> "unsent", rc |-> 0, body |-> "job", attr |-> 0,
                                 ret |-> "none"]]
    /\ procs = IdleProcs
    /\ hist = [m \in Msgs |-> NoHist]
    /\ engine \in BOOLEAN
    /\ ai = IdleAI
    /\ trace = << >>
    /\ answer = NoDoc
    /\ hop = IdleHop
    /\ store = EmptyStore
    /\ imp = IdleImport
    /\ norm = IdleNorm

\* The handler invoked for m calls correctDocument with the job's document.
HandlerCorrects(m, doc) ==
    /\ \E l \in Loops : procs[l][m].pc = "handler"
    /\ ai.pc = "idle"
    /\ ai' = FirstTurn(doc)
    /\ trace' = Append(trace, "invoked")
    /\ answer' = NoDoc
    /\ UNCHANGED <<qvars, engine, hop, store, imp, norm>>

\* correctDocument is over and the handler settles: it returns when
\* correctDocument returned and raises when it threw.
HandlerSettles(m) ==
    /\ ai.pc \in {"returned", "threw"}
    /\ \E l \in Loops :
          /\ procs[l][m].pc = "handler"
          /\ procs' = [procs EXCEPT ![l][m].pc =
                          IF ai.pc = "returned" THEN "returned" ELSE "raised"]
    /\ hist' = [hist EXCEPT ![m].out = IF ai.pc = "returned" THEN @ ELSE "raised"]
    /\ ai' = IdleAI
    /\ UNCHANGED <<cfg, isPolling, handlers, lastKey, created, destroyed, loops, q,
                   engine, trace, answer, hop, store, imp, norm>>

NextLevels ==
    \/ \E l \in Loops, batch \in SUBSET Msgs : ReceiveCompletes(l, batch)
    \/ \E l \in Loops : BatchSettled(l)
    \/ \E l \in Loops : NextPoll(l)
    \/ \E m \in Msgs, d \in {[id |-> "A", qid |-> "q1"]} : HandlerCorrects(m, d)
    \/ \E s \in BOOLEAN : CallFails(s)
    \/ \E c \in BOOLEAN : CallTruncated(c, << >>)
    \/ \E t \in {<<"{B}">>, <<"length">>} : CallAnswers(t)
    \/ \E m \in Msgs : HandlerSettles(m)
    \/ \E m \in Msgs : Continue(m)
    \/ \E m \in Msgs, ok \in BOOLEAN : DeleteCompletes(m, ok)
    \/ \E m \in Msgs, ok \in BOOLEAN : VisibilityCompletes(m, ok)
    \/ \E m \in Msgs : Expire(m)

SpecLevels == InitLevels /\ [][NextLevels]_vars


\* ======================================================================
\* Claims about the queue consumer (checked under Spec)
\* ======================================================================
\* Deliveries of m whose outcome processMessage has decided.
Decided(m) == IF hist[m].dec = "none" /\ q[m].rc > 0 THEN q[m].rc - 1 ELSE q[m].rc

\* The handler raised on every delivery of m so far, and the provider performed
\* every call it was sent for m.
AlwaysRaised(m) == q[m].body = "job" /\ ~hist[m].okSeen /\ ~hist[m].fault

\* The handler raised on the latest delivery of m and processMessage has taken
\* its decision for it.
RaisedAndDecided(m) == hist[m].out = "raised" /\ pm[m].pc # "raised"

\* C1: dead-letter boundary.  For a message whose handler raised on every
\* delivery (the provider counting 1, 2, 3, ... and performing the calls), the
\* deliveries decided so far caused one changeMessageVisibility call each up to
\* retryMaxAttempts - 1 calls, the delivery counted retryMaxAttempts caused the
\* one and only deleteMessage call, and no delivery follows it.
C1_DeadLetterBoundary ==
    \A m \in Msgs :
        AlwaysRaised(m) =>
            /\ q[m].rc <= cfg.retryMaxAttempts
            /\ hist[m].cv = Min(Decided(m), cfg.retryMaxAttempts - 1)
            /\ hist[m].del = (IF Decided(m) >= cfg.retryMaxAttempts THEN 1 ELSE 0)
            /\ q[m].st = "gone" => Decided(m) = cfg.retryMaxAttempts

C1_Witness ==
    \E m \in Msgs :
        /\ AlwaysRaised(m)
        /\ cfg.retryMaxAttempts >= 2
        /\ q[m].st = "gone"
        /\ q[m].rc = cfg.retryMaxAttempts
        /\ hist[m].cv = cfg.retryMaxAttempts - 1
        /\ hist[m].del = 1

\* C2: on a delivery whose handlers all returned, the consumer sends one
\* deleteMessage and nothing else for the message (no changeMessageVisibility,
\* no second delete), whatever the outcome of the delete.
C2_AckOnlyAfterSuccess ==
    \A m \in Msgs :
        hist[m].out = "ok" => hist[m].ddel = 1 /\ hist[m].dcv = 0

\* C3: when the handler raised on a delivery counted below retryMaxAttempts,
\* the consumer sends exactly one changeMessageVisibility, with the backoff of
\* the count in whole seconds capped by visibilityTimeout, sends no delete, and
\* the message stays in the queue.
C3_Retrying ==
    \A m \in Msgs :
        RaisedAndDecided(m) /\ q[m].rc < cfg.retryMaxAttempts =>
            /\ hist[m].dec = "retry"
            /\ hist[m].dcv = 1
            /\ hist[m].ddel = 0
            /\ hist[m].delay * 1000 <= cfg.retryDelayMs * Pow2(q[m].rc - 1)
            /\ hist[m].delay <= cfg.visibilityTimeout
            /\ \/ hist[m].delay = cfg.visibilityTimeout
               \/ (hist[m].delay + 1) * 1000 > cfg.retryDelayMs * Pow2(q[m].rc - 1)
            /\ q[m].st \in {"inflight", "visible"}

C3_Witness ==
    \E m \in Msgs :
        /\ RaisedAndDecided(m)
        /\ q[m].rc < cfg.retryMaxAttempts
        /\ hist[m].dcv = 1
        /\ hist[m].delay = 2
        /\ cfg.visibilityTimeout = 2
        /\ q[m].st = "visible"

\* The state part of C4: when the handler raised on a delivery counted
\* retryMaxAttempts or more, the consumer sends one deleteMessage and no
\* changeMessageVisibility; once the provider has performed the delete the
\* message is gone.
C4_DeadLetteredState ==
    \A m \in Msgs :
        RaisedAndDecided(m) /\ q[m].rc >= cfg.retryMaxAttempts =>
            /\ hist[m].dec = "dead"
            /\ hist[m].ddel = 1
            /\ hist[m].dcv = 0
            /\ (pm[m].pc \in {"settled", "idle"} /\ ~hist[m].dfault) => q[m].st = "gone"

\* C4, as a property of behaviours: the state part above always holds, and a
\* message that is gone is never changed again by the provider or the consumer.
C4_DeadLettered ==
    /\ []C4_DeadLetteredState
    /\ [][\A m \in Msgs : q[m].st = "gone" => q'[m] = q[m]]_vars

C4_Witness ==
    \E m \in Msgs :
        /\ RaisedAndDecided(m)
        /\ q[m].rc >= cfg.retryMaxAttempts
        /\ hist[m].dec = "dead"
        /\ q[m].st = "gone"

\* C5: batch isolation.  Every message of a received batch is dispatched and the
\* loop stays with the batch until all are settled; when a message k of the
\* batch raised, a sibling whose handlers returned is acknowledged with one
\* delete and no retry action (the provider performing the delete), and k takes
\* its own single retry or dead-letter action.
C5_BatchIsolation ==
    /\ \A m \in Msgs :
          /\ (q[m].st = "inflight" /\ hist[m].dec = "none") =>
                 pm[m].pc \in {"handler", "returned", "raised"}
          /\ pm[m].loop # 0 => loops[pm[m].loop] = "batch"
    /\ \A k \in Msgs, m \in Msgs :
          (/\ k # m
           /\ pm[k].loop # 0
           /\ pm[k].loop = pm[m].loop
           /\ hist[k].out = "raised"
           /\ hist[m].out = "ok"
           /\ ~hist[m].dfault) =>
              /\ hist[m].dec = "ack"
              /\ hist[m].ddel = 1
              /\ hist[m].dcv = 0
              /\ pm[m].pc = "settled" => q[m].st = "gone"
              /\ pm[k].pc # "raised" =>
                    /\ hist[k].dcv + hist[k].ddel = 1
                    /\ hist[k].dec \in {"retry", "dead"}

C5_Witness ==
    \E k \in Msgs, m \in Msgs :
        /\ k # m
        /\ pm[k].loop # 0
        /\ pm[k].loop = pm[m].loop
        /\ hist[k].out = "raised"
        /\ pm[k].pc = "settled"
        /\ hist[k].dec = "retry"
        /\ hist[m].out = "ok"
        /\ pm[m].pc = "settled"
        /\ q[m].st = "gone"

\* C6: a message whose handler has settled can always go on to its acknowledge
\* (or to its next handler or its retry decision), whatever its siblings of the
\* same batch are doing: it never waits for a sibling's handler.
C6_AckNeverWaits ==
    \A m \in Msgs : pm[m].pc \in {"returned", "raised"} => ENABLED Continue(m)

C6_Witness ==
    \E m \in Msgs, o \in Msgs :
        /\ m # o
        /\ pm[m].loop # 0
        /\ pm[m].loop = pm[o].loop
        /\ hist[m].out = "ok"
        /\ q[m].st = "gone"
        /\ pm[o].pc = "handler"

\* ======================================================================
\* Claims about correctDocument (checked under SpecAI)
\* ======================================================================
TruncatedTwice ==
    Len(trace) >= 2 /\ trace[1] = "truncated" /\ trace[2] = "truncated"

\* C7: truncation escalation.  After truncations on the first two rungs the
\* third call is made with the third budget, and when the corrector then answers
\* with a document, correctDocument returns that document (identifiers restored)
\* after exactly 3 calls.
C7_TruncationEscalation ==
    TruncatedTwice =>
        /\ ai.calls = 3
        /\ ai.budgets = <<100000, 150000, 200000>>
        /\ (Len(trace) = 3 /\ trace[3] = "document") =>
              /\ ai.pc = "returned"
              /\ ai.out = Restored(ai.doc, answer)

C7_Witness ==
    /\ TruncatedTwice
    /\ Len(trace) = 3
    /\ trace[3] = "document"
    /\ ai.pc = "returned"
    /\ ai.calls = 3
    /\ ai.out.id = "A"
    /\ answer.id = "B"

\* C8: truncation exhaustion.  A truncated response never makes correctDocument
\* return; truncations on all three rungs make it throw the truncation error
\* after exactly 3 calls, without a document.
C8_TruncationExhaustion ==
    /\ (trace # << >> /\ trace[Len(trace)] = "truncated") => ai.pc # "returned"
    /\ (Len(trace) = 3 /\ \A i \in 1..3 : trace[i] = "truncated") =>
          /\ ai.pc = "threw"
          /\ ai.err = "truncated"
          /\ ai.calls = 3
          /\ ai.out = NoDoc
    /\ (ai.pc = "threw" /\ ai.err = "truncated") => ai.calls = MAX_RETRIES_FOR_LENGTH

C8_Witness ==
    /\ Len(trace) = 3
    /\ \A i \in 1..3 : trace[i] = "truncated"
    /\ ai.pc = "threw"
    /\ ai.err = "truncated"
    /\ ai.calls = 3

\* C9: a corrector call that fails for a reason other than truncation (the call
\* rejects, or the response has no content) ends the invocation: it is the last
\* call and correctDocument throws, whatever the text of the error.
C9_NoEscalationOnFailure ==
    \A i \in 1..Len(trace) :
        trace[i] \in {"apiError", "noContent"} => i = Len(trace) /\ ai.pc = "threw"

\* C10: a non-truncated response whose text does not parse ends the invocation:
\* it is the last call and correctDocument throws, whatever the text.
C10_NoEscalationOnParseFailure ==
    \A i \in 1..Len(trace) :
        trace[i] = "unparseable" => i = Len(trace) /\ ai.pc = "threw"

\* C11: identity invariant.  For an input document that has an _id, a
\* correctDocument invocation that returns, returns a document with that _id,
\* whatever _id the corrector's answer carried (another one, or none).
C11_IdentityInvariant ==
    (ai.pc = "returned" /\ ai.doc.id # "") => ai.out.id = ai.doc.id

C11_Witness ==
    /\ ai.pc = "returned"
    /\ ai.doc.id = "A"
    /\ trace = <<"document">>
    /\ answer.id = ""
    /\ ai.out.id = "A"

\* C12: unconditional identity restoration.  Every returned document has the
\* _id of the input document, also when the input has no _id: the returned
\* document then has none either.
C12_UnconditionalRestore ==
    ai.pc = "returned" => ai.out.id = ai.doc.id

\* ======================================================================
\* Claims about the backoff (checked under SpecBackoff)
\* ======================================================================
\* C13: the backoff is monotone and bounded.  The timeout sent for a delivery
\* counted n is at most the timeout computed for n + 1, and both are at most
\* visibilityTimeout.
C13_BackoffMonotoneBounded ==
    \A m \in Msgs :
        hist[m].dec = "retry" =>
            /\ hist[m].delay = backoffDelay(q[m].rc)
            /\ hist[m].delay <= backoffDelay(q[m].rc + 1)
            /\ backoffDelay(q[m].rc + 1) <= cfg.visibilityTimeout

C13_Witness ==
    \E m \in Msgs :
        /\ hist[m].dec = "retry"
        /\ q[m].rc >= 3
        /\ hist[m].delay < backoffDelay(q[m].rc + 1)
        /\ backoffDelay(q[m].rc + 1) = cfg.visibilityTimeout

\* C14: the backoff formula.  The timeout sent for a delivery counted n, in
\* milliseconds, is min(retryDelayMs * 2^(n-1), visibilityTimeout in
\* milliseconds), for every positive retryDelayMs and visibilityTimeout; for
\* n = 1 it is retryDelayMs.
C14_BackoffFormula ==
    \A m \in Msgs :
        hist[m].dec = "retry" =>
            hist[m].delay * 1000 =
                Min(cfg.retryDelayMs * Pow2(q[m].rc - 1), cfg.visibilityTimeout * 1000)

\* ======================================================================
\* Further claims about the queue consumer
\* ======================================================================
\* C15: fail then succeed (checked under SpecLifecycle: retryMaxAttempts 3,
\* retryDelayMs 5000, visibilityTimeout 300).  For a job whose latest delivery
\* succeeded after raises on all deliveries before it (the provider performing
\* every call, and each delivery made after the processing of the one before
\* it was over), the count is at most retryMaxAttempts, one
\* changeMessageVisibility was sent for each earlier delivery i with
\* min(retryDelayMs * 2^(i-1), ceiling) as its timeout, exactly one delete was
\* sent, and the message ends removed.
C15_FailThenSucceed ==
    \A m \in Msgs :
        (q[m].body = "job" /\ hist[m].out = "ok" /\ ~hist[m].fault /\ ~hist[m].dup) =>
            /\ q[m].rc <= cfg.retryMaxAttempts
            /\ hist[m].cv = q[m].rc - 1
            /\ Len(hist[m].delays) = q[m].rc - 1
            /\ \A i \in 1..Len(hist[m].delays) :
                  hist[m].delays[i] * 1000 =
                      Min(cfg.retryDelayMs * Pow2(i - 1), cfg.visibilityTimeout * 1000)
            /\ hist[m].del = 1
            /\ hist[m].dec = "ack"
            /\ (\A l \in Loops : procs[l][m].pc \in {"settled", "idle"}) => q[m].st = "gone"

C15_Witness ==
    \E m \in Msgs :
        /\ hist[m].out = "ok"
        /\ ~hist[m].fault
        /\ ~hist[m].dup
        /\ cfg.retryMaxAttempts = 3
        /\ q[m].rc = 3
        /\ hist[m].delays = <<5, 10>>
        /\ hist[m].cv = 2
        /\ hist[m].del = 1
        /\ q[m].st = "gone"

\* C16: a received message whose body is no serialized job (text that is no
\* JSON, or the JSON text null) is deleted at once on every delivery: one
\* delete is sent, no handler is invoked on it, and no changeMessageVisibility
\* is ever sent for it.
C16_MalformedAcknowledged ==
    \A m \in Msgs :
        (q[m].body \in {"malformed", "null"} /\ q[m].rc > 0) =>
            /\ hist[m].dec = "drop"
            /\ hist[m].ddel = 1
            /\ hist[m].cv = 0
            /\ pm[m].pc \notin {"handler", "returned", "raised"}
            /\ (pm[m].pc \in {"settled", "idle"} /\ ~hist[m].dfault) => q[m].st = "gone"

\* C17: the provider owns the attempt count.  While a delivery is processed the
\* attempt number in use is the provider's count of that delivery; the
\* decision taken after a failure is dead-letter exactly when that count has
\* reached retryMaxAttempts; so two messages at the same count get the same
\* decision, whatever their bodies and attemptNumber attributes.
C17_ProviderOwnsCount ==
    /\ \A m \in Msgs : pm[m].pc # "idle" => pm[m].attempt = q[m].rc
    /\ \A m \in Msgs :
          hist[m].dec \in {"retry", "dead"} =>
              (hist[m].dec = "dead" <=> q[m].rc >= cfg.retryMaxAttempts)
    /\ \A m \in Msgs, k \in Msgs :
          (/\ hist[m].dec \in {"retry", "dead"}
           /\ hist[k].dec \in {"retry", "dead"}
           /\ q[m].rc = q[k].rc) => hist[m].dec = hist[k].dec

C17_Witness ==
    \E m \in Msgs, k \in Msgs :
        /\ q[m].attr # q[k].attr
        /\ q[m].rc = q[k].rc
        /\ hist[m].out = "raised"
        /\ hist[k].out = "raised"
        /\ hist[m].dec = "retry"
        /\ hist[k].dec = "retry"

\* C18: the polling loop survives every failure (checked under SpecLive, where
\* no stop signal is given).  A loop that was started never exits, and after
\* every receive, failed or followed by a batch with raising handlers and
\* failed deletes, it issues another receive.
C18_LoopSurvives ==
    /\ [][\A l \in Loops : loops[l] # "idle" => loops'[l] # "idle"]_vars
    /\ \A l \in Loops : (loops[l] \in {"batch", "next"}) ~> (loops[l] = "receive")

C18_Witness ==
    \E l \in Loops, m \in Msgs :
        /\ loops[l] = "receive"
        /\ pm[m].pc = "idle"
        /\ hist[m].dfault
        /\ hist[m].dec \in {"dead", "drop"}
        /\ q[m].st = "inflight"

\* C19: no receive after a stop signal (checked under SpecLifecycle).  A loop
\* issues a receive only in a step after which isPolling is set; and while
\* polling is stopped a message whose handler is running can still settle and
\* go on to its decision.
C19_NoReceiveAfterStop ==
    /\ [][\A l \in Loops : (loops[l] # "receive" /\ loops'[l] = "receive") => isPolling']_vars
    /\ [](~isPolling =>
             \A l \in Loops, m \in Msgs :
                 /\ procs[l][m].pc = "handler" => ENABLED HandlerDone(m, TRUE)
                 /\ procs[l][m].pc \in {"returned", "raised"} => ENABLED Continue(m))

C19_Witness ==
    \E m \in Msgs :
        /\ ~isPolling
        /\ ~destroyed
        /\ \A l \in Loops : loops[l] # "receive"
        /\ pm[m].loop # 0
        /\ loops[pm[m].loop] = "batch"
        /\ hist[m].dec = "retry"
        /\ pm[m].pc = "settled"

\* C20: drain on stop (checked under SpecLifecycle).  While a message of a
\* received batch has not completed its decision, the queue client has not
\* been destroyed and every registered handler is still in place.
C20_DrainOnStop ==
    \A l \in Loops, m \in Msgs :
        procs[l][m].pc \in {"handler", "returned", "raised", "delSuccess", "delDead",
                            "delMalformed", "cv"} =>
            /\ ~destroyed
            /\ \A i \in 1..Len(handlers) : handlers[i].live

\* The processMessage calls that are under way, each named by its chain and
\* its message.
Processing == {x \in Loops \X Msgs : procs[x[1]][x[2]].pc \notin {"idle", "settled"}}

\* The pollMessages chains that are alive: awaiting a receive, awaiting a batch,
\* or scheduled by setImmediate.
LiveLoops == {l \in Loops : loops[l] # "idle"}

\* C21: single polling loop.  After any sequence of createWorker, pause and
\* resume calls at most one pollMessages chain is alive, so at most one receive
\* or batch is outstanding, and the messages being processed never exceed
\* maxNumberOfMessages.
C21_SingleLoop ==
    /\ Cardinality(LiveLoops) <= 1
    /\ Cardinality(Processing) <= cfg.maxNumberOfMessages

\* The step of loop l that leaves the wait for its batch.
LeavesBatch(l) == loops[l] = "batch" /\ loops'[l] # "batch"

\* C22: within one polling loop the next receive is issued only after every
\* message of the previous batch reached an outcome (acknowledged, visibility
\* extended, dead-lettered, dropped, skipped or failed): a message is in
\* processing only while its loop waits for the batch, the loop leaves that wait
\* only with every message of the batch settled and decided, and while the loop
\* is between batches every message it ever received has its outcome.
C22_ReceiveAfterOutcomes ==
    /\ [](\A m \in Msgs : pm[m].pc # "idle" => loops[pm[m].loop] = "batch")
    /\ [](\A l \in Loops : loops[l] \in {"receive", "next"} =>
              \A m \in Msgs : q[m].rc > 0 => pm[m].pc = "idle" /\ hist[m].dec # "none")
    /\ [][\A l \in Loops : LeavesBatch(l) =>
              \A m \in Msgs : pm[m].loop = l =>
                  pm[m].pc = "settled" /\ hist[m].dec # "none"]_vars

\* The loop has issued its next receive after a batch of two messages, one
\* acknowledged and one whose visibility was extended.
C22_Witness ==
    \E l \in Loops :
        /\ loops[l] = "receive"
        /\ \A m \in Msgs : q[m].rc = 1 /\ pm[m].pc = "idle"
        /\ \E m, o \in Msgs : hist[m].dec = "ack" /\ hist[o].dec = "retry"

\* C23: concurrency limit.  At no time does the service process more than
\* config.concurrency messages at once, whatever valid concurrency and
\* maxNumberOfMessages are configured.
C23_ConcurrencyLimit == Cardinality(Processing) <= cfg.concurrency

\* C24: no job is retried forever.  Under fair delivery, with the provider
\* counting every delivery and performing the calls it is sent, a job is
\* delivered, and its handler invoked, on at most retryMaxAttempts deliveries,
\* and every enqueued job of a polling consumer is eventually removed from the
\* queue, whatever the handler outcomes are.
C24_NoRetryForever ==
    /\ [](\A m \in Msgs : q[m].body = "job" /\ ~hist[m].fault =>
              q[m].rc <= cfg.retryMaxAttempts)
    /\ \A m \in Msgs :
          (q[m].st = "visible" /\ q[m].body = "job" /\ isPolling)
              ~> (q[m].st = "gone" \/ hist[m].fault)

\* A job was removed after its handler raised on a delivery and returned on the
\* next one; another was removed after its handler raised on every delivery.
C24_Witness ==
    \E m, o \in Msgs :
        /\ q[m].st = "gone" /\ q[m].body = "job" /\ ~hist[m].fault
        /\ q[m].rc = 2 /\ hist[m].dec = "ack" /\ hist[m].cv = 1
        /\ q[o].st = "gone" /\ q[o].body = "job" /\ ~hist[o].fault
        /\ q[o].rc = cfg.retryMaxAttempts /\ hist[o].dec = "dead"

\* The handler raised on the latest delivery of m, processMessage took the
\* retry branch, and the changeMessageVisibility call it sent has failed.
RetryExtensionFailed(m) ==
    /\ hist[m].out = "raised"
    /\ hist[m].dec = "retry"
    /\ hist[m].dfault

\* C25: extending the invisibility is best-effort.  When the provider's
\* change-visibility call fails on the retry path, processMessage completes
\* for that delivery without raising, no delete was sent for the message, and
\* the message stays in the queue: invisible until its window lapses, then
\* visible for the next receive.
C25_BestEffortExtension ==
    \A m \in Msgs :
        RetryExtensionFailed(m) =>
            /\ pm[m].pc \in {"settled", "idle"}
            /\ pm[m].pc = "settled" => pm[m].res = "fulfilled"
            /\ hist[m].ddel = 0
            /\ q[m].st \in {"inflight", "visible"}
            /\ q[m].st = "inflight" => ENABLED Expire(m)

\* The change-visibility call of a retry failed, and the message is visible
\* again after its window lapsed.
C25_Witness ==
    \E m \in Msgs :
        /\ RetryExtensionFailed(m)
        /\ q[m].st = "visible"
        /\ q[m].rc = 1
        /\ hist[m].dcv = 1

\* C26: send surfaces failure.  addJob raised to its caller exactly for the jobs
\* whose send the provider failed, such a job is never in the queue and never
\* delivered, and addJob returned a message id only for a job that was enqueued
\* as one message carrying the job with the attemptNumber attribute 0.
C26_SendSurfacesFailure ==
    \A m \in Msgs :
        /\ q[m].ret = "threw" <=> q[m].st = "rejected"
        /\ q[m].st = "rejected" => q[m].rc = 0 /\ hist[m] = NoHist /\ pm[m] = IdlePM
        /\ q[m].ret = "id" =>
              /\ q[m].st \in {"visible", "inflight", "gone"}
              /\ q[m].body = "job"
              /\ q[m].attr = 0

\* One addJob call raised and its job was never delivered, while the job of
\* another call that returned an id was delivered to the handler.
C26_Witness ==
    \E m, o \in Msgs :
        /\ q[m].ret = "threw" /\ q[m].st = "rejected"
        /\ q[o].ret = "id" /\ q[o].rc = 1 /\ pm[o].pc = "handler"

\* A log entry at error level that carries the document id, the attempt count
\* and the error.
HasFullContext(r) ==
    /\ r.level = "error"
    /\ {"documentId", "error"} \subseteq r.fields
    /\ {"attemptNumber", "attempts"} \cap r.fields # {}

\* A log entry at error level that says no further attempt will be made.
IsTerminal(r) ==
    /\ r.level = "error"
    /\ r.event = "Max retry attempts reached, deleting message"
    /\ {"documentId", "attempts"} \subseteq r.fields

\* C27: every dead-letter transition is observable.  Whenever processMessage
\* decides to remove a message because its count reached retryMaxAttempts, it
\* has logged for that delivery a terminal failure record, one entry that
\* says no further attempt is made and carries the document id, the attempt
\* count and the last error; the entry precedes the delete call, so it is
\* there whether the delete succeeds or fails.
C27_DeadLetterObservable ==
    \A m \in Msgs :
        hist[m].dec = "dead" =>
            \E i \in 1..Len(hist[m].log) :
                /\ IsTerminal(hist[m].log[i])
                /\ HasFullContext(hist[m].log[i])

\* ------------------------------------------------ the hop through the queue
\* The queue and the correction engine at rest, for the specifications of the
\* other parts of the program.
QueueAtRest ==
    /\ cfg = [retryMaxAttempts |-> 3, retryDelayMs |-> 5000, visibilityTimeout |-> 300,
              maxNumberOfMessages |-> 1, concurrency |-> DefaultConcurrency]
    /\ isPolling = FALSE
    /\ handlers = << >>
    /\ lastKey = 0
    /\ created = 0
    /\ destroyed = FALSE
    /\ loops = [l \in Loops |-> "idle"]
    /\ q = [m \in Msgs |-> [st |-> "unsent", rc |-> 0, body |-> "job", attr |-> 0,
                             ret |-> "none"]]
    /\ procs = IdleProcs
    /\ hist = [m \in Msgs |-> NoHist]
    /\ engine = FALSE
    /\ ai = IdleAI
    /\ trace = << >>
    /\ answer = NoDoc

\* The characters of a documentId: a plain letter, the letter n, the double
\* quote, the backslash and the line feed.
IdChars == {"a", "n", "quote", "backslash", "lf"}
IdsOfLen(n) == [1..n -> IdChars]
DocumentIds == UNION {IdsOfLen(n) : n \in 0..MaxIdLen}

EscapeCharKeepsBackslash(c) ==
    CASE c = "quote" -> <<"backslash", "quote">>
      [] c = "lf"    -> <<"backslash", "n">>
      [] OTHER       -> <<c>>
\* JSON.stringify of one character of a string value.
EscapeChar(c) ==
    CASE c = "quote"     -> <<"backslash", "quote">>
      [] c = "backslash" -> <<"backslash", "backslash">>
      [] c = "lf"        -> <<"backslash", "n">>
      [] OTHER           -> <<c>>

RECURSIVE QuoteChars(_)
QuoteChars(t) == IF t = << >> THEN << >> ELSE EscapeChar(Head(t)) \o QuoteChars(Tail(t))

\* JSON.stringify(message): the text of the object; "documentId" and ":" stand
\* for the key and its colon, "rest" for the other properties of the message.
Stringify(documentId) ==
    <<"{", "documentId", ":", "quote">> \o QuoteChars(documentId)
        \o <<"quote", ",", "rest", "}">>

\* JSON.parse reading a string value of text t from position i, after the
\* opening quote: acc is the value read so far.  A raw line feed and an
\* unknown escape are syntax errors.
RECURSIVE ReadString(_, _, _)
ReadString(t, i, acc) ==
    IF i > Len(t) THEN [ok |-> FALSE, val |-> << >>, next |-> i]
    ELSE IF t[i] = "quote" THEN [ok |-> TRUE, val |-> acc, next |-> i + 1]
    ELSE IF t[i] = "lf" THEN [ok |-> FALSE, val |-> << >>, next |-> i]
    ELSE IF t[i] = "backslash" THEN
        IF i + 1 > Len(t) THEN [ok |-> FALSE, val |-> << >>, next |-> i]
        ELSE CASE t[i + 1] = "quote"     -> ReadString(t, i + 2, Append(acc, "quote"))
               [] t[i + 1] = "backslash" -> ReadString(t, i + 2, Append(acc, "backslash"))
               [] t[i + 1] = "n"         -> ReadString(t, i + 2, Append(acc, "lf"))
               [] OTHER                  -> [ok |-> FALSE, val |-> << >>, next |-> i]
    ELSE ReadString(t, i + 1, Append(acc, t[i]))

\* queueMessage = JSON.parse(sqsMessage.Body): the parsed documentId, or a
\* syntax error.
ParseBody(body) ==
    IF Len(body) >= 4 /\ SubSeq(body, 1, 4) = <<"{", "documentId", ":", "quote">>
    THEN LET r == ReadString(body, 5, << >>) IN
         IF r.ok /\ SubSeq(body, r.next, Len(body)) = <<",", "rest", "}">>
         THEN [ok |-> TRUE, documentId |-> r.val]
         ELSE [ok |-> FALSE, documentId |-> << >>]
    ELSE [ok |-> FALSE, documentId |-> << >>]

InitHop ==
    QueueAtRest /\ hop = IdleHop /\ store = EmptyStore /\ imp = IdleImport /\ norm = IdleNorm

\* addJob(message): the message is serialized into the body of the send call;
\* the provider accepts the send or fails it.
HopAddJob(documentId, ok) ==
    /\ hop.pc = "idle"
    /\ hop' = [pc |-> IF ok THEN "queued" ELSE "rejected", documentId |-> documentId,
               body |-> Stringify(documentId), seen |-> << >>]
    /\ UNCHANGED <<qvars, aivars, store, imp, norm>>

\* A delivery of the job: processMessage parses the body and passes the parsed
\* message to the handler; a body it cannot parse is deleted as malformed.
HopDeliver ==
    /\ hop.pc = "queued"
    /\ Len(hop.seen) < MaxDeliveries
    /\ hop' = IF ParseBody(hop.body).ok
              THEN [hop EXCEPT !.seen = Append(@, ParseBody(hop.body).documentId)]
              ELSE [hop EXCEPT !.pc = "dropped"]
    /\ UNCHANGED <<qvars, aivars, store, imp, norm>>

\* The job leaves the queue after a delivery: acknowledged or dead-lettered.
HopRemove ==
    /\ hop.pc = "queued"
    /\ hop.seen # << >>
    /\ hop' = [hop EXCEPT !.pc = "gone"]
    /\ UNCHANGED <<qvars, aivars, store, imp, norm>>

NextHop ==
    \/ \E documentId \in DocumentIds, ok \in BOOLEAN : HopAddJob(documentId, ok)
    \/ HopDeliver
    \/ HopRemove

SpecHop == InitHop /\ [][NextHop]_vars

\* C28: identity across the queue hop.  For every job passed to addJob the body
\* sent to the queue parses on every delivery, and the documentId the handler
\* sees on each of them is the documentId that was passed to addJob.
C28_HopIdentity ==
    /\ hop.pc # "dropped"
    /\ \A i \in 1..Len(hop.seen) : hop.seen[i] = hop.documentId

\* A documentId made of a backslash, the letter n and a double quote was seen
\* unchanged by the handler on two deliveries.
C28_Witness ==
    /\ hop.documentId = <<"backslash", "n", "quote">>
    /\ Len(hop.seen) = 2
    /\ hop.seen[2] = hop.documentId

\* --------------------------------------- the store behind the consumer handler
\* The documents jobs are about, and the values a correction can produce for
\* one; "orig" is the failed document as stored before any correction.
StoredIds == {"d1", "d2"}
Corrections == {"v1", "v2"}

\* The records of the collection keyed by documentId.
RecordsOf(recs, id) == {i \in 1..Len(recs) : recs[i].documentId = id}

InsertAlways(recs, id, val) == Append(recs, [documentId |-> id, value |-> val])
\* upsertById: update the record keyed by the id, insert it when there is none.
UpsertById(recs, id, val) ==
    IF RecordsOf(recs, id) = {} THEN Append(recs, [documentId |-> id, value |-> val])
    ELSE [i \in 1..Len(recs) |-> IF recs[i].documentId = id
                                 THEN [recs[i] EXCEPT !.value = val] ELSE recs[i]]

\* A collection that holds the failed document of each of the given ids.
CollectionOf(ids) ==
    IF ids = {} THEN << >>
    ELSE IF ids = {"d1"} THEN <<[documentId |-> "d1", value |-> "orig"]>>
    ELSE IF ids = {"d2"} THEN <<[documentId |-> "d2", value |-> "orig"]>>
    ELSE <<[documentId |-> "d1", value |-> "orig"], [documentId |-> "d2", value |-> "orig"]>>

InitStore ==
    /\ QueueAtRest
    /\ hop = IdleHop
    /\ imp = IdleImport
    /\ norm = IdleNorm
    /\ store \in {[recs |-> CollectionOf(ids), jobs |-> << >>] : ids \in SUBSET StoredIds}

\* The consumer handler for one delivery of the job of document id: the
\* correction engine yields val and the re-validation accepts it (ok), and the
\* handler writes it with the store's update-by-id operation; or the
\* correction or the re-validation fails and the handler raises.
HandleJob(id, val, ok) ==
    /\ Len(store.jobs) < MaxJobs
    /\ store' = [recs |-> IF ok THEN UpsertById(store.recs, id, val) ELSE store.recs,
                 jobs |-> Append(store.jobs, [documentId |-> id, value |-> val, ok |-> ok])]
    /\ UNCHANGED <<qvars, aivars, hop, imp, norm>>

NextStore == \E id \in StoredIds, val \in Corrections, ok \in BOOLEAN : HandleJob(id, val, ok)

SpecStore == InitStore /\ [][NextStore]_vars

\* The deliveries of the job of id that were processed successfully, in order.
Successes(id) ==
    {i \in 1..Len(store.jobs) : store.jobs[i].documentId = id /\ store.jobs[i].ok}

LastSuccess(id) == CHOOSE i \in Successes(id) : \A j \in Successes(id) : j <= i

\* C29: idempotence under duplicate delivery.  No documentId ever has more
\* than one stored record, and once a job was processed successfully, however
\* many times, its documentId has exactly one record, which holds the value
\* written by the latest successful processing.
C29_Idempotence ==
    \A id \in StoredIds :
        /\ Cardinality(RecordsOf(store.recs, id)) <= 1
        /\ Successes(id) # {} =>
              /\ Cardinality(RecordsOf(store.recs, id)) = 1
              /\ \A i \in RecordsOf(store.recs, id) :
                    store.recs[i].value = store.jobs[LastSuccess(id)].value

\* The same job was processed successfully twice, with different corrections,
\* and once more without success; its one record holds the second correction.
C29_Witness ==
    \E id \in StoredIds :
        /\ Len(store.jobs) = 3
        /\ \A i \in 1..3 : store.jobs[i].documentId = id
        /\ store.jobs[1].ok /\ store.jobs[2].ok /\ ~store.jobs[3].ok
        /\ store.jobs[1].value # store.jobs[2].value
        /\ Cardinality(RecordsOf(store.recs, id)) = 1
        /\ \A i \in RecordsOf(store.recs, id) : store.recs[i].value = store.jobs[2].value

\* ------------------------------------------------------------ the data import
\* The entries of missing.json: "good" transforms into a document the schema
\* accepts, "bad" into one it rejects, "broken" makes transformDocument throw
\* inside its try block, and "null" is a null entry, for which the catch block
\* of transformDocument throws as well when it reads rawDoc.title.
RawKinds == {"good", "bad", "broken", "null"}
RawFiles == UNION {[1..n -> RawKinds] : n \in 0..MaxDocs}

\* The null transformDocument returns, and a document that was in the
\* collection before the run.
NullDoc == [index |-> 0, schemaValid |-> FALSE]
ExistingDoc == [index |-> 0, schemaValid |-> TRUE]

\* DataTransformer.transformDocument(rawDoc, index) for an entry that does not
\* make it throw out of its catch block.
transformDocument(rawDoc, index) ==
    IF rawDoc = "broken" THEN NullDoc
    ELSE [index |-> index, schemaValid |-> rawDoc = "good"]

RECURSIVE transformFrom(_, _)
transformFrom(rawDocuments, i) ==
    IF i > Len(rawDocuments) THEN << >>
    ELSE (IF transformDocument(rawDocuments[i], i) = NullDoc THEN << >>
          ELSE <<transformDocument(rawDocuments[i], i)>>)
         \o transformFrom(rawDocuments, i + 1)

\* DataTransformer.transformAll(rawDocuments): the non-null results, in order.
transformAll(rawDocuments) == transformFrom(rawDocuments, 1)

\* transformAll throws: a null entry.
TransformThrows(rawDocuments) ==
    \E i \in 1..Len(rawDocuments) : rawDocuments[i] = "null"

\* this.validator.validate(doc)
validate(doc) == [isValid |-> doc.schemaValid]
IsValid(doc) == validate(doc).isValid

transformAndValidateKeepsAll(rawDocuments) ==
    [valid |-> transformAll(rawDocuments),
     invalid |-> Len(transformAll(rawDocuments))
                   - Len(SelectSeq(transformAll(rawDocuments), IsValid))]
\* transformAndValidate(rawDocuments): the transformed documents that validate,
\* and the number of those that do not.
transformAndValidate(rawDocuments) ==
    [valid |-> SelectSeq(transformAll(rawDocuments), IsValid),
     invalid |-> Len(transformAll(rawDocuments))
                   - Len(SelectSeq(transformAll(rawDocuments), IsValid))]

InitImport ==
    /\ QueueAtRest
    /\ hop = IdleHop
    /\ store = EmptyStore
    /\ imp \in {[IdleImport EXCEPT !.coll = c, !.before = c] :
                    c \in {<< >>, <<ExistingDoc>>}}
    /\ norm = IdleNorm

\* The steps of run() a throw of transformAll or transformAndValidate leaves
\* started.
StepsRead(rawDocuments) ==
    IF TransformThrows(rawDocuments) THEN <<"read", "transform">>
    ELSE <<"read", "transform", "validate">>

ImportRunUnchecked(rawDocuments, connected, readable) ==
    /\ imp.pc = "idle"
    /\ imp' = IF ~connected THEN [imp EXCEPT !.pc = "failed"]
              ELSE IF ~readable THEN [imp EXCEPT !.pc = "failed", !.steps = <<"read">>]
              ELSE IF TransformThrows(rawDocuments)
              THEN [imp EXCEPT !.pc = "failed", !.raw = rawDocuments,
                               !.steps = StepsRead(rawDocuments)]
              ELSE [imp EXCEPT !.raw = rawDocuments,
                               !.transformed = transformAll(rawDocuments),
                               !.valid = transformAndValidate(rawDocuments).valid,
                               !.steps = StepsRead(rawDocuments),
                               !.pc = "deleting", !.at = "count"]
    /\ UNCHANGED <<qvars, aivars, hop, store, norm>>

\* run() up to the first await of deleteExistingDocuments: read the file,
\* transform and validate; a failed connection, a file that cannot be read, a
\* throw, or no valid document ends the run before the collection is touched.
\* steps lists the steps of the run that were started; at names the store call
\* the run is waiting for.
ImportRun(rawDocuments, connected, readable) ==
    /\ imp.pc = "idle"
    /\ imp' = IF ~connected THEN [imp EXCEPT !.pc = "failed"]
              ELSE IF ~readable THEN [imp EXCEPT !.pc = "failed", !.steps = <<"read">>]
              ELSE IF TransformThrows(rawDocuments)
              THEN [imp EXCEPT !.pc = "failed", !.raw = rawDocuments,
                               !.steps = StepsRead(rawDocuments)]
              ELSE [imp EXCEPT !.raw = rawDocuments,
                               !.transformed = transformAll(rawDocuments),
                               !.valid = transformAndValidate(rawDocuments).valid,
                               !.steps = StepsRead(rawDocuments),
                               !.pc = IF transformAndValidate(rawDocuments).valid = << >>
                                      THEN "failed" ELSE "deleting",
                               !.at = IF transformAndValidate(rawDocuments).valid = << >>
                                      THEN "none" ELSE "count"]
    /\ UNCHANGED <<qvars, aivars, hop, store, norm>>

\* deleteExistingDocuments(), the count before the deletion (line 127): the
\* call fails and the run ends, or it answers; for an empty collection the
\* deletion is skipped.
ImportCount(ok) ==
    /\ imp.pc = "deleting"
    /\ imp.at = "count"
    /\ imp' = IF ~ok THEN [imp EXCEPT !.pc = "failed", !.at = "none",
                                      !.steps = Append(@, "delete")]
              ELSE IF imp.coll = << >>
              THEN [imp EXCEPT !.pc = "inserting", !.at = "insertMany",
                               !.steps = Append(@, "delete")]
              ELSE [imp EXCEPT !.at = "deleteMany", !.steps = Append(@, "delete")]
    /\ UNCHANGED <<qvars, aivars, hop, store, norm>>

\* deleteMany({}) (line 136) empties the collection, or fails and the run ends.
ImportDelete(ok) ==
    /\ imp.pc = "deleting"
    /\ imp.at = "deleteMany"
    /\ imp' = IF ok THEN [imp EXCEPT !.at = "verify", !.coll = << >>]
              ELSE [imp EXCEPT !.pc = "failed", !.at = "none"]
    /\ UNCHANGED <<qvars, aivars, hop, store, norm>>

\* The count after the deletion (lines 144-147): it answers 0, or it fails or
\* answers another number and the run ends with the collection emptied.
ImportDeleted(ok) ==
    /\ imp.pc = "deleting"
    /\ imp.at = "verify"
    /\ imp' = IF ok THEN [imp EXCEPT !.pc = "inserting", !.at = "insertMany"]
              ELSE [imp EXCEPT !.pc = "failed", !.at = "none"]
    /\ UNCHANGED <<qvars, aivars, hop, store, norm>>

\* insertDocuments(valid): insertMany of the batch (line 175) inserts all of
\* it, or fails after the first k documents and the run ends.
ImportInsert(k) ==
    /\ imp.pc = "inserting"
    /\ imp.at = "insertMany"
    /\ k \in 0..Len(imp.valid)
    /\ imp' = [imp EXCEPT !.coll = @ \o SubSeq(imp.valid, 1, k),
                          !.inserted = SubSeq(imp.valid, 1, k),
                          !.steps = Append(@, "insert"),
                          !.pc = IF k = Len(imp.valid) THEN "inserting" ELSE "failed",
                          !.at = IF k = Len(imp.valid) THEN "verify" ELSE "none"]
    /\ UNCHANGED <<qvars, aivars, hop, store, norm>>

\* The count after the insertion (lines 192-195): it answers insertedCount, or
\* it fails or answers another number and the run ends with the documents in
\* the collection.
ImportInserted(ok) ==
    /\ imp.pc = "inserting"
    /\ imp.at = "verify"
    /\ imp' = IF ok THEN [imp EXCEPT !.pc = "verifying", !.at = "find"]
              ELSE [imp EXCEPT !.pc = "failed", !.at = "none"]
    /\ UNCHANGED <<qvars, aivars, hop, store, norm>>

\* verifyInsertedDocuments(): the sample of the collection is validated again.
ImportVerify(ok) ==
    /\ imp.pc = "verifying"
    /\ imp' = [imp EXCEPT !.steps = Append(@, "verify"),
                          !.at = "none",
                          !.pc = IF ok /\ \A i \in 1..Len(imp.coll) : IsValid(imp.coll[i])
                                 THEN "done" ELSE "failed"]
    /\ UNCHANGED <<qvars, aivars, hop, store, norm>>

NextImport ==
    \/ \E rawDocuments \in RawFiles, connected, readable \in BOOLEAN :
          ImportRun(rawDocuments, connected, readable)
    \/ \E ok \in BOOLEAN : ImportCount(ok)
    \/ \E ok \in BOOLEAN : ImportDelete(ok)
    \/ \E ok \in BOOLEAN : ImportDeleted(ok)
    \/ \E k \in 0..MaxDocs : ImportInsert(k)
    \/ \E ok \in BOOLEAN : ImportInserted(ok)
    \/ \E ok \in BOOLEAN : ImportVerify(ok)

SpecImport == InitImport /\ [][NextImport]_vars

\* C30: the import inserts validated documents only.  Every document the run
\* inserted is the transformation of an entry of the file, and validate()
\* returned isValid for it; an entry whose transformation or validation failed
\* has no document in the collection after the run emptied it.
C30_InsertsValidatedOnly ==
    /\ \A i \in 1..Len(imp.inserted) :
          LET doc == imp.inserted[i] IN
          /\ doc.index \in 1..Len(imp.raw)
          /\ doc = transformDocument(imp.raw[doc.index], doc.index)
          /\ validate(doc).isValid
    /\ imp.pc \in {"inserting", "verifying", "done"} =>
          \A i \in 1..Len(imp.coll) : imp.raw[imp.coll[i].index] = "good"

\* A file with an entry that validates, one that fails validation and one that
\* fails transformation was imported to the end: one document was inserted.
C30_Witness ==
    /\ imp.pc = "done"
    /\ \E i, j, k \in 1..Len(imp.raw) :
          imp.raw[i] = "good" /\ imp.raw[j] = "bad" /\ imp.raw[k] = "broken"
    /\ Len(imp.inserted) = 1
    /\ imp.coll = imp.inserted

\* The steps of the import in the order the guide gives them.
ImportSteps == <<"read", "transform", "validate", "delete", "insert", "verify">>

Started(step) == \E i \in 1..Len(imp.steps) : imp.steps[i] = step

\* C31: import step ordering.  The steps started so far are an initial part
\* of read, transform, validate, delete, insert, verify; the delete is started
\* only after transformation and validation produced at least one valid
\* document; and a run whose read failed, or which found no valid document,
\* has failed with no delete and no insert started and the collection as it
\* was before the run.
C31_ImportStepOrder ==
    /\ Len(imp.steps) <= Len(ImportSteps)
    /\ imp.steps = SubSeq(ImportSteps, 1, Len(imp.steps))
    /\ Started("delete") => Started("validate") /\ imp.valid # << >>
    /\ (Started("read") /\ imp.valid = << >>) =>
          /\ imp.pc = "failed"
          /\ ~Started("delete") /\ ~Started("insert")
          /\ imp.coll = imp.before /\ imp.inserted = << >>

\* One run went through all six steps and replaced the document that was in
\* the collection.
C31_Witness ==
    /\ imp.steps = ImportSteps
    /\ imp.pc = "done"
    /\ imp.before = <<ExistingDoc>>
    /\ imp.coll = imp.valid

\* A run that transformed documents none of which validates has failed and
\* left the collection alone.
C31_WitnessNoValid ==
    /\ imp.pc = "failed"
    /\ imp.transformed # << >> /\ imp.valid = << >>
    /\ imp.coll = <<ExistingDoc>>

\* The handlers registered in messageHandlers.
Registered == {i \in 1..Len(handlers) : handlers[i].live}

\* C32: acknowledge only after a handler.  The delete of the success path is
\* sent for a message only after at least one registered handler was invoked
\* on it and returned; and whatever createWorker, pause, resume and close calls
\* were made, no receive is outstanding while no handler is registered.
C32_AckAfterHandler ==
    /\ \A l \in Loops, m \in Msgs :
          procs[l][m].pc = "delSuccess" => procs[l][m].inv # << >>
    /\ \A l \in Loops : loops[l] = "receive" => Registered # {}

\* The processors invoked so far for the delivery of m in processing.
Invoked(m) == {pm[m].inv[i] : i \in 1..Len(pm[m].inv)}

\* The processors registered in messageHandlers.
RegisteredProcs == {handlers[i].proc : i \in Registered}

\* The step in which processMessage decides to acknowledge m as a success.
DecidesAck(m) == pm[m].pc # "delSuccess" /\ pm'[m].pc = "delSuccess"

\* Handlers are invoked one at a time in registration order, and the one that
\* raised is the last one invoked for the delivery.
InvokedInOrder(m) ==
    /\ \A i, j \in 1..Len(pm[m].inv) : i < j => pm[m].inv[i] < pm[m].inv[j]
    /\ pm[m].pc \in {"handler", "returned", "raised"} =>
          /\ pm[m].inv # << >>
          /\ handlers[pm[m].hidx].live =>
                handlers[pm[m].hidx].proc >= pm[m].inv[Len(pm[m].inv)]
    /\ (pm[m].pc # "idle" /\ hist[m].out = "raised") =>
          /\ pm[m].pc \in {"raised", "cv", "delDead", "settled"}
          /\ hist[m].ddel = (IF hist[m].dec = "dead" THEN 1 ELSE 0)

\* C33: several handlers.  Each delivery invokes the handlers one after
\* another in registration order; the first handler that raises stops the
\* sequence and sends the message to the retry or dead-letter decision; and
\* processMessage decides to acknowledge the message only when every handler
\* registered at that moment was invoked for the delivery and returned.
C33_HandlerSequence ==
    /\ [](\A m \in Msgs : InvokedInOrder(m))
    /\ [][\A m \in Msgs : DecidesAck(m) => RegisteredProcs \subseteq Invoked(m)']_vars

\* C34: every createWorker call registers a distinct handler.  After n
\* createWorker calls, whenever they were made (the same clock millisecond
\* included), n handlers are registered and they are the n processors passed,
\* none replaced.
C34_DistinctHandlers ==
    /\ RegisteredProcs = 1..created
    /\ Cardinality(Registered) = created

\* C35: a received message without body (or without receipt handle) is
\* skipped.  On every delivery of it processMessage returns at once: no handler
\* is invoked, no delete and no changeMessageVisibility call is ever sent for
\* it, and the message stays in the queue, invisible for the window of the
\* receive and visible again afterwards.
C35_SkippedUntouched ==
    \A m \in Msgs :
        (q[m].body = "empty" /\ q[m].rc > 0) =>
            /\ hist[m].dec = "skip"
            /\ pm[m].pc \in {"settled", "idle"}
            /\ pm[m].pc = "settled" => pm[m].res = "fulfilled"
            /\ pm[m].inv = << >> /\ hist[m].out = "none"
            /\ hist[m].del = 0 /\ hist[m].cv = 0
            /\ q[m].st \in {"inflight", "visible"}

\* A message without body was received and skipped twice and is visible again,
\* while a job of the same queue was handled and acknowledged.
C35_Witness ==
    \E m, o \in Msgs :
        /\ q[m].body = "empty" /\ q[m].rc = 2 /\ q[m].st = "visible"
        /\ hist[m].dec = "skip"
        /\ q[o].body = "job" /\ q[o].st = "gone" /\ hist[o].dec = "ack"

\* C36: the escalation loop is bounded and ordered.  An invocation makes at most
\* 3 corrector calls and is over once the third has been answered; the k-th call
\* carries the k-th rung of the ladder (100000, 150000, 200000), never the
\* configured maxTokens; the budgets ascend strictly, so no rung is used twice;
\* and a call answered with a document is the last call of the invocation.
C36_BoundedLadder ==
    /\ ai.calls <= MAX_RETRIES_FOR_LENGTH
    /\ Len(ai.budgets) = ai.calls
    /\ Len(trace) <= ai.calls
    /\ Len(trace) = MAX_RETRIES_FOR_LENGTH => ai.pc \in {"returned", "threw"}
    /\ \A k \in 1..ai.calls :
          /\ ai.budgets[k] = TOKEN_PROGRESSION[k]
          /\ ai.budgets[k] # ConfigMaxTokens
    /\ \A j \in 1..ai.calls, k \in 1..ai.calls : j < k => ai.budgets[j] < ai.budgets[k]
    /\ \A k \in 1..Len(trace) :
          trace[k] = "document" =>
              /\ k = Len(trace)
              /\ ai.calls = k
              /\ ai.pc = "returned"

C36_Witness ==
    /\ ai.pc = "returned"
    /\ ai.calls = 3
    /\ ai.budgets = <<100000, 150000, 200000>>
    /\ trace = <<"truncated", "apiError", "document">>

\* The calls of the invocation before the last "invoked" of the job's trace.
LastInvoked == CHOOSE i \in 1..Len(trace) :
                  trace[i] = "invoked" /\ \A j \in (i + 1)..Len(trace) : trace[j] # "invoked"
EarlierCalls == SubSeq(trace, 1, LastInvoked - 1)

\* C37: the two retry levels are independent.  Every correctDocument invocation
\* starts with one call at the first rung of the ladder, whatever the calls of
\* the earlier invocations for the job were and whatever its delivery count is;
\* and when the handler raised, the consumer dead-letters or retries by the
\* delivery count alone, whether or not the engine was truncated.
C37_LevelsIndependent ==
    [][ /\ (ai.pc = "idle" /\ ai'.pc = "calling") =>
              /\ ai'.attempt = 0
              /\ ai'.calls = 1
              /\ ai'.budgets = <<TOKEN_PROGRESSION[1]>>
        /\ \A m \in Msgs :
              (pm[m].pc = "raised" /\ pm'[m].pc # "raised") =>
                  IF q[m].rc >= cfg.retryMaxAttempts
                  THEN pm'[m].pc = "delDead" /\ hist'[m].dec = "dead"
                  ELSE pm'[m].pc = "cv" /\ hist'[m].dec = "retry" ]_vars

\* The second delivery's invocation has started at the first rung after the
\* first delivery's invocation was truncated on all three rungs.
C37_Witness ==
    /\ q[1].rc = 2
    /\ hist[1].cv = 1
    /\ trace = <<"invoked", "truncated", "truncated", "truncated", "invoked">>
    /\ EarlierCalls = <<"invoked", "truncated", "truncated", "truncated">>
    /\ ai.pc = "calling"
    /\ ai.budgets = <<100000>>

\* C38: on every return of correctDocument the returned question_id is the
\* input's question_id when the input has one, and otherwise the string form of
\* the input's _id when the input has an _id, whatever question_id the
\* corrector's answer carried.
C38_QuestionIdRestored ==
    ai.pc = "returned" =>
        IF ai.doc.qid # "" THEN ai.out.qid = ai.doc.qid
        ELSE ai.doc.id # "" => ai.out.qid = IdToString(ai.doc.id)

\* The input has a question_id and the answer carried another one.
C38_Witness ==
    /\ ai.pc = "returned"
    /\ ai.doc.qid = "q1"
    /\ answer.qid = "q2"
    /\ ai.out.qid = "q1"

\* The input has an _id and no question_id, and the answer carried a question_id.
C38_WitnessFromId ==
    /\ ai.pc = "returned"
    /\ ai.doc = [id |-> "A", qid |-> ""]
    /\ answer.qid = "q2"
    /\ ai.out.qid = "hexA"

\* ------------------------------------------------------ DocumentNormalizer
\* A field value is absent, a string (a sequence of characters) or a value that
\* is no string (a number other than 0).  _id and question_id are as in the
\* correction engine: "" when absent, "A" an ObjectId, "s1" a string.
\* difficulty is "none" (absent), "num" (no string) or the string itself.
\* testCases is absent, an array (s lists its elements: a test case with a
\* nested _id, one without, or null) or a value that is no array.
\* topic_tags and constraints are "none", "arr" or "other".
MaxSlugLen == 2     \* characters of a slug

Chars == {"A", " ", "-", "_"}
RECURSIVE StringsOfLen(_)
StringsOfLen(n) ==
    IF n = 0 THEN {<< >>}
    ELSE {Append(t, c) : t \in StringsOfLen(n - 1), c \in Chars}
Str(t) == [k |-> "str", s |-> t]
Num == [k |-> "num", s |-> << >>]
Truthy(v) == v.k = "num" \/ (v.k \in {"str", "arr"} /\ (v.k = "str" => v.s # << >>))

NormalizerIds == {"", "A", "s1"}
Difficulties == {"none", "num", "EASY", "odd"}
Titles == {Absent, Num, Str(<<"A", " ", "a">>)}
Slugs == {Absent, Num} \cup {Str(t) : t \in UNION {StringsOfLen(n) : n \in 0..MaxSlugLen}}
Contents == {Absent, Num, Str(<<" ", "a">>)}
TestCaseArrays == {[k |-> "arr", s |-> t] : t \in {<<"noId", "withId">>, <<"null">>}}
TestCaseValues == {Absent, Num} \cup TestCaseArrays
ArrayKinds == {"none", "other"}
Documents ==
    [id : NormalizerIds, qid : {"", "q1"}, difficulty : Difficulties, title : Titles,
     slug : Slugs, content : Contents, testCases : TestCaseValues,
     topic_tags : ArrayKinds, constraints : {"none", "arr"}]

\* String.prototype.toLowerCase and trim.
toLowerCase(t) == [i \in 1..Len(t) |-> IF t[i] = "A" THEN "a" ELSE t[i]]
RECURSIVE trimStart(_)
trimStart(t) == IF t # << >> /\ t[1] = " " THEN trimStart(Tail(t)) ELSE t
RECURSIVE trimEnd(_)
trimEnd(t) == IF t # << >> /\ t[Len(t)] = " " THEN trimEnd(SubSeq(t, 1, Len(t) - 1)) ELSE t
trim(t) == trimEnd(trimStart(t))

\* replace(/[^...]/g, ''): only the characters of keep stay.
Keep(t, keep) == LET Kept(c) == c \in keep IN SelectSeq(t, Kept)
\* replace(/c+/g, '-'): every run of the character c becomes one hyphen.
RECURSIVE SkipRun(_, _)
SkipRun(t, c) == IF t # << >> /\ t[1] = c THEN SkipRun(Tail(t), c) ELSE t
RECURSIVE RunsToHyphen(_, _)
RunsToHyphen(t, c) ==
    IF t = << >> THEN << >>
    ELSE IF t[1] = c THEN <<"-">> \o RunsToHyphen(SkipRun(t, c), c)
    ELSE <<t[1]>> \o RunsToHyphen(Tail(t), c)
\* replace(/^-|-$/g, ''): one leading and one trailing hyphen go.
StripEdgeHyphens(t) ==
    LET a == IF t # << >> /\ t[1] = "-" THEN Tail(t) ELSE t
    IN IF a # << >> /\ a[Len(a)] = "-" THEN SubSeq(a, 1, Len(a) - 1) ELSE a

generateSlug(title) ==
    StripEdgeHyphens(RunsToHyphen(RunsToHyphen(Keep(trim(toLowerCase(title)),
                                                    {"a", " ", "-"}), " "), "-"))
normalizeSlug(slug) ==
    StripEdgeHyphens(RunsToHyphen(Keep(trim(toLowerCase(slug)), {"a", "-"}), "-"))

normalizeDifficulty(difficulty) ==
    IF difficulty \in {"none", "num"} THEN "Medium"
    ELSE IF difficulty \in {"easy", "EASY"} THEN "Easy"
    ELSE IF difficulty \in {"hard", "Hard"} THEN "Hard"
    ELSE IF difficulty \in {"medium", "Medium"} THEN "Medium"
    ELSE difficulty

\* The statements of the try block that throw a TypeError: a method of String
\* called on a value that is no string, or a null test case destructured.
NormalizeThrows(d) ==
    \/ Truthy(d.title) /\ ~Truthy(d.slug) /\ d.title.k # "str"
    \/ ~(Truthy(d.title) /\ ~Truthy(d.slug)) /\ Truthy(d.slug) /\ d.slug.k # "str"
    \/ d.testCases.k = "arr" /\ \E i \in 1..Len(d.testCases.s) : d.testCases.s[i] = "null"
    \/ Truthy(d.content) /\ d.content.k # "str"

QuestionIdAlwaysFromId(d) == IF d.id # "" THEN IdToString(d.id) ELSE d.qid
\* if (!normalized.question_id && normalized._id) question_id = _id.toString()
QuestionIdOf(d) == IF d.qid = "" /\ d.id # "" THEN IdToString(d.id) ELSE d.qid

\* The try block of normalize on the shallow copy of the document.
Normalized(d) ==
    [id |-> d.id,
     qid |-> QuestionIdOf(d),
     difficulty |-> normalizeDifficulty(d.difficulty),
     title |-> d.title,
     slug |-> IF Truthy(d.title) /\ ~Truthy(d.slug) THEN Str(generateSlug(d.title.s))
              ELSE IF Truthy(d.slug) THEN Str(normalizeSlug(d.slug.s))
              ELSE d.slug,
     content |-> IF Truthy(d.content) THEN Str(trim(d.content.s)) ELSE d.content,
     testCases |-> IF d.testCases.k = "arr"
                   THEN [k |-> "arr", s |-> [i \in 1..Len(d.testCases.s) |-> "noId"]]
                   ELSE [k |-> "arr", s |-> << >>],
     topic_tags |-> "arr",
     constraints |-> "arr"]

\* normalize(document): the normalized copy, or the document itself when the
\* try block threw.
normalize(d) == IF NormalizeThrows(d) THEN d ELSE Normalized(d)

\* validateNormalization(original, normalized)
validateNormalization(original, normalized) ==
    IF original.id # "" /\ IdToString(normalized.id) # IdToString(original.id) THEN FALSE
    ELSE IF original.qid # "" /\ normalized.qid # original.qid THEN FALSE
    ELSE TRUE

InitNormalize ==
    /\ QueueAtRest
    /\ hop = IdleHop
    /\ store = EmptyStore
    /\ imp = IdleImport
    /\ norm = IdleNorm

\* DocumentNormalizer.normalize(document) is called.
Normalize(d) ==
    /\ norm.pc = "idle"
    /\ norm' = [pc |-> "normalized", original |-> d, normalized |-> normalize(d),
                threw |-> NormalizeThrows(d), valid |-> FALSE]
    /\ UNCHANGED <<qvars, aivars, hop, store, imp>>

\* DocumentNormalizer.validateNormalization(original, normalized) is called on
\* the result.
ValidateNormalization ==
    /\ norm.pc = "normalized"
    /\ norm' = [norm EXCEPT !.pc = "validated",
                            !.valid = validateNormalization(norm.original, norm.normalized)]
    /\ UNCHANGED <<qvars, aivars, hop, store, imp>>

NextNormalize ==
    \/ norm.pc = "idle" /\ \E d \in Documents : Normalize(d)
    \/ ValidateNormalization

SpecNormalize == InitNormalize /\ [][NextNormalize]_vars

\* C39: normalization preserves identity.  The document normalize returns has
\* the _id of the input, the question_id of the input when the input has one,
\* and a question_id that differs from the input's only when the input had none
\* and it is the string form of the _id; validateNormalization of the input and
\* the result is true.
C39_NormalizationPreservesIdentity ==
    norm.pc \in {"normalized", "validated"} =>
        /\ norm.normalized.id = norm.original.id
        /\ norm.original.qid # "" => norm.normalized.qid = norm.original.qid
        /\ norm.normalized.qid # norm.original.qid =>
              /\ norm.original.qid = ""
              /\ norm.original.id # ""
              /\ norm.normalized.qid = IdToString(norm.original.id)
        /\ norm.pc = "validated" => norm.valid

\* A document with both identifiers and fields that normalize rewrites.
C39_Witness ==
    /\ norm.pc = "validated"
    /\ norm.valid
    /\ ~norm.threw
    /\ norm.original.id = "A"
    /\ norm.original.qid = "q1"
    /\ norm.original.difficulty = "EASY"
    /\ norm.normalized.difficulty = "Easy"
    /\ norm.original.slug = Str(<<"A", "_">>)
    /\ norm.normalized.slug = Str(<<"a">>)

\* A document whose question_id is filled from its ObjectId.
C39_WitnessFilled ==
    /\ norm.pc = "validated"
    /\ norm.valid
    /\ norm.original.id = "A"
    /\ norm.original.qid = ""
    /\ norm.normalized.qid = "hexA"

\* A document normalize gives back untouched because the try block threw.
C39_WitnessThrew ==
    /\ norm.pc = "validated"
    /\ norm.valid
    /\ norm.threw
    /\ norm.original.id = "A"
    /\ norm.normalized = norm.original

====
